---- MODULE Spec2Model ----
(***************************************************************************)
(* A model of the market dashboard's reconnecting streaming client        *)
(* (BinanceWebSocket, in its two revisions), of the data orchestrator     *)
(* (the useMarketData hook) and of the freshness cache (getCachedData).   *)
(*                                                                         *)
(* Time is in milliseconds.  The event loop is modelled by one action per *)
(* task: a public method call, a socket event, a timer callback, a        *)
(* settled request.  A task runs to completion; the handlers it calls are *)
(* operators that map a "world" record (the mutable state) to the world   *)
(* after the call, so that sequential code composes as in the source.     *)
(***************************************************************************)
EXTENDS Integers, Sequences, FiniteSets, TLC

VARIABLES
    now,      \* Date.now()
    cl,       \* the BinanceWebSocket instances constructed so far
    socks,    \* the WebSocket objects constructed so far
    timers,   \* pending setTimeout / setInterval callbacks, in creation order
    orch,     \* the state of the useMarketData hook
    cache,    \* the module-level cache Map of the market-signals route
    inflight, \* the awaited requests (fetches) that have not settled yet
    hist,     \* history, per client: what its public calls and its breaker did
    calls,    \* history: the number of public calls made by the caller
    last,     \* history: the task that ran last and the listener calls it made
    cfg       \* which system is running (set once by Init)

vars == <<now, cl, socks, timers, orch, cache, inflight, hist, calls, last, cfg>>

-----------------------------------------------------------------------------
(* Bounds of the model.                                                    *)

\* Date.now() when the page loads: any value larger than every threshold.
StartTime == 200000
\* Pending timers at any one time.
MaxTimers == 5

Min(S) == CHOOSE x \in S : \A y \in S : x <= y
MinOf(a, b) == IF a <= b THEN a ELSE b
MaxOf(a, b) == IF a >= b THEN a ELSE b
RECURSIVE Pow2(_)
Pow2(n) == IF n <= 0 THEN 1 ELSE 2 * Pow2(n - 1)

\* Math.random() is drawn from {0, 1/n, ..., (n-1)/n}, n = cfg.rand; a draw
\* is kept as its numerator.
RandomDraws == 0 .. (cfg.rand - 1)
\* Math.random() * range, rounded down to a whole millisecond.
RandomTimes(r, range) == (r * range) \div cfg.rand

Symbols == {"BTCUSDT", "ETHUSDT"}
Intervals == {"1d", "1h"}
\* String.prototype.toLowerCase on the symbols of the model
toLowerCase(sym) ==
    CASE sym = "BTCUSDT" -> "btcusdt"
      [] sym = "ETHUSDT" -> "ethusdt"
      [] OTHER -> sym
\* The symbol Binance puts in the events of a stream
toUpperCase(sym) ==
    CASE sym = "btcusdt" -> "BTCUSDT"
      [] sym = "ethusdt" -> "ETHUSDT"
      [] OTHER -> sym
CloseCodes == {1000, 1006}
\* new WebSocket(url) throws only for a malformed URL; the URLs built from
\* wsUrls and a stream name are well formed.
CtorThrows == {FALSE}

\* private circuitBreakerDelay = 15000 (revision B); never reassigned
CircuitBreakerDelay == 15000

\* History of a client: whether the last public call was disconnect(); when
\* its breaker was last entered; which task then cleared the breaker flag,
\* and whether that was before the cooldown had elapsed.
NoHist == [disc |-> FALSE, tripAt |-> 0, exitBy |-> "none", exitEarly |-> FALSE]

-----------------------------------------------------------------------------
(* The world: the mutable state a task works on.                          *)

World(r) ==
    [now |-> now, cl |-> cl, socks |-> socks, timers |-> timers, orch |-> orch,
     inflight |-> inflight, hist |-> hist, cbs |-> <<>>, log |-> <<>>,
     note |-> "", rnd |-> r, throws |-> FALSE, ok |-> TRUE]

\* [] (no candles), and null for the analysis and the indicator arrays, which
\* are kept as the candles they were computed from.
NoCandles == [sym |-> "", tf |-> "", src |-> "none", close |-> 0]
NullPrice == [sym |-> "null", v |-> 0]
\* What a closure of the hook captured from its render; the callbacks of the
\* client capture only `this`.
NoEnv == [sym |-> "", tf |-> "", price |-> NullPrice, candles |-> FALSE,
          data |-> NoCandles, isConnected |-> FALSE,
          lastPriceUpdateTime |-> 0, target |-> ""]

\* setTimeout(callback, delay) / setInterval(callback, delay); owner 0 is the
\* hook, env is what the callback's closure captured.
setTimeoutEnv(w, i, kind, delay, env) ==
    [w EXCEPT !.timers = Append(@, [owner |-> i, kind |-> kind,
                                    at |-> w.now + delay, delay |-> delay,
                                    env |-> env])]

setTimeout(w, i, kind, delay) == setTimeoutEnv(w, i, kind, delay, NoEnv)

\* clearTimeout / clearInterval of the handle a field of client i holds
clearTimer(w, i, kind) ==
    LET Keep(t) == ~(t.owner = i /\ t.kind = kind)
    IN [w EXCEPT !.timers = SelectSeq(@, Keep)]

ReadyState(w, i) ==
    IF w.cl[i].ws = 0 THEN "NONE" ELSE w.socks[w.cl[i].ws].readyState

\* WebSocket.close(code): a no-op on a closing or closed socket; a socket
\* that is still connecting is failed, an open one starts the closing
\* handshake.
wsClose(w, s, code, why) ==
    IF w.socks[s].readyState \in {"CLOSING", "CLOSED"} THEN w
    ELSE [w EXCEPT !.socks[s].closedIn = w.socks[s].readyState,
                   !.socks[s].closeCode = code,
                   !.socks[s].why = why,
                   !.socks[s].readyState = "CLOSING"]

\* History: the breaker of the client was entered less than the cooldown ago.
InCooldown(h, t) == h.tripAt # 0 /\ t - h.tripAt < CircuitBreakerDelay

\* new WebSocket(url)
newSocket(w, i) ==
    LET c == w.cl[i]
        s == [owner |-> i, readyState |-> "CONNECTING", symbol |-> c.symbol,
              interval |-> c.interval, url |-> c.currentUrlIndex,
              created |-> w.now, closedIn |-> "NONE", closeCode |-> 0,
              why |-> "none", inDisc |-> w.hist[i].disc,
              inCooldown |-> InCooldown(w.hist[i], w.now),
              exitBy |-> w.hist[i].exitBy]
    IN [w EXCEPT !.socks = Append(@, s),
                 !.cl[i].ws = Len(w.socks) + 1,
                 !.ok = w.ok /\ Len(w.socks) < cfg.socks]

-----------------------------------------------------------------------------
(* The hook's stable listeners (useCallback with no dependencies: they    *)
(* close over the first render, where isConnected is false).              *)

\* The messages a socket of the given stream can deliver.
Msgs(sym, prices) ==
    {[e |-> "kline", s |-> sym, c |-> p, p |-> 0, P |-> 0] : p \in prices}
      \cup {[e |-> "other", s |-> sym, c |-> 0, p |-> 0, P |-> 0],
            [e |-> "garbage", s |-> sym, c |-> 0, p |-> 0, P |-> 0]}

\* wsRef.current?.isConnected()
wsRefConnected(w) ==
    /\ w.orch.wsRef # 0
    /\ w.cl[w.orch.wsRef].ws # 0
    /\ w.socks[w.cl[w.orch.wsRef].ws].readyState = "OPEN"

syncConnectionState(w) ==
    IF w.now - w.orch.lastSyncRef > 5000
    THEN LET w1 == [w EXCEPT !.orch.lastSyncRef = w.now]
         IN IF wsRefConnected(w1)
            THEN [w1 EXCEPT !.orch.isConnected = TRUE,
                            !.orch.connectionState = "Connected"]
            ELSE w1
    ELSE w

stableHandleKlineUpdate(w, data) ==
    [syncConnectionState(w) EXCEPT
        !.orch.currentPrice = [sym |-> data.s, v |-> data.c],
        !.orch.lastUpdate = w.now,
        !.orch.lastPriceUpdateTime = w.now]

\* The handler without its test of the change fields.
stableHandleTickerUpdateAlways(w, data) ==
    [syncConnectionState(w) EXCEPT
        !.orch.currentPrice = [sym |-> data.s, v |-> data.c],
        !.orch.lastUpdate = w.now,
        !.orch.lastPriceUpdateTime = w.now,
        !.orch.priceChange = data.p,
        !.orch.priceChangePercent = data.P]

stableHandleTickerUpdate(w, data) ==
    LET w1 == [syncConnectionState(w) EXCEPT
                  !.orch.currentPrice = [sym |-> data.s, v |-> data.c],
                  !.orch.lastUpdate = w.now,
                  !.orch.lastPriceUpdateTime = w.now]
    IN IF data.p # 0 \/ data.P # 0
       THEN [w1 EXCEPT !.orch.priceChange = data.p,
                       !.orch.priceChangePercent = data.P]
       ELSE w1

stableHandleConnectionChange(w, connected) ==
    [w EXCEPT !.orch.isConnected = connected,
              !.orch.connectionState =
                  IF connected THEN "Connected" ELSE "Disconnected"]

WsErrorShown == 10000
\* setWsError(error), cleared 10 s later
stableHandleWebSocketError(w, error) ==
    setTimeout([w EXCEPT !.orch.wsError = error], 0, "clearWsError",
               WsErrorShown)

\* A listener of client i is invoked (onKlineUpdate?.(), onTickerUpdate?.(),
\* onConnectionChange?.(), onErrorCallback?.()).  A client the hook
\* constructed has the hook's stable handlers registered.
Listener(w, i, kind, arg) ==
    LET w1 == [w EXCEPT !.cbs = Append(@, [kind |-> kind, arg |-> arg])]
    IN IF ~w.cl[i].hooked THEN w1
       ELSE CASE kind = "kline" -> stableHandleKlineUpdate(w1, arg)
              [] kind = "ticker" -> stableHandleTickerUpdate(w1, arg)
              [] kind = "connection" -> stableHandleConnectionChange(w1, arg)
              [] OTHER -> stableHandleWebSocketError(w1, arg)

-----------------------------------------------------------------------------
(* BinanceWebSocket, src/lib/websocket.ts (revision A).                   *)

WsUrlsA == 4
MaxReconnectAttemptsA == 5
HandshakeTimeout == 10000
BackoffBaseA == 1000
BackoffCapA == 30000
JitterA == 1000
PingPeriodA == 30000
DataCheckPeriodA == 15000
DataTimeoutA == 30000
ChangeStreamDelayA == 100

\* constructor(symbol, interval)
NewClient(rev, symbol, interval, hooked) ==
    [rev |-> rev, hooked |-> hooked, symbol |-> toLowerCase(symbol),
     interval |-> interval,
     ws |-> 0, reconnectAttempts |-> 0, connectionTimeout |-> 0,
     isConnecting |-> FALSE, lastConnectionTime |-> 0, pingInterval |-> 0,
     lastDataReceived |-> 0, dataTimeoutCheck |-> 0, currentUrlIndex |-> 0,
     errorCount |-> 0, lastErrorTime |-> 0, isCircuitBreakerActive |-> FALSE,
     connectionAttempts |-> 0, lastSuccessfulConnection |-> 0]

isConnected(w, i) == ReadyState(w, i) = "OPEN"

handleConnectionError(w, i, error) == Listener(w, i, "error", error)

clearConnectionTimeout(w, i) ==
    IF w.cl[i].connectionTimeout # 0
    THEN [clearTimer(w, i, "connectionTimeout") EXCEPT
              !.cl[i].connectionTimeout = 0]
    ELSE w

stopHeartbeat(w, i) ==
    IF w.cl[i].pingInterval # 0
    THEN [clearTimer(w, i, "pingInterval") EXCEPT !.cl[i].pingInterval = 0]
    ELSE w

stopDataTimeoutCheck(w, i) ==
    IF w.cl[i].dataTimeoutCheck # 0
    THEN [clearTimer(w, i, "dataTimeoutCheck") EXCEPT
              !.cl[i].dataTimeoutCheck = 0]
    ELSE w

startHeartbeatA(w, i) ==
    [setTimeout(stopHeartbeat(w, i), i, "pingInterval", PingPeriodA) EXCEPT
        !.cl[i].pingInterval = 1]

startDataTimeoutCheckA(w, i) ==
    [setTimeout(stopDataTimeoutCheck(w, i), i, "dataTimeoutCheck",
                DataCheckPeriodA) EXCEPT !.cl[i].dataTimeoutCheck = 1]

\* handleReconnect without the limit on the attempts.
handleReconnectAUnlimited(w, i) ==
    LET c == w.cl[i]
        n == c.reconnectAttempts + 1
        url == IF n > 2 THEN (c.currentUrlIndex + 1) % WsUrlsA
               ELSE c.currentUrlIndex
        baseDelay == MinOf(BackoffBaseA * Pow2(n - 1), BackoffCapA)
        delay == baseDelay + RandomTimes(w.rnd, JitterA)
    IN setTimeout([w EXCEPT !.cl[i].reconnectAttempts = n,
                            !.cl[i].currentUrlIndex = url],
                  i, "reconnect", delay)

handleReconnectA(w, i) ==
    LET c == w.cl[i] IN
    IF c.reconnectAttempts < MaxReconnectAttemptsA
    THEN LET n == c.reconnectAttempts + 1
             url == IF n > 2 THEN (c.currentUrlIndex + 1) % WsUrlsA
                    ELSE c.currentUrlIndex
             baseDelay == MinOf(BackoffBaseA * Pow2(n - 1), BackoffCapA)
             delay == baseDelay + RandomTimes(w.rnd, JitterA)
         IN setTimeout([w EXCEPT !.cl[i].reconnectAttempts = n,
                                 !.cl[i].currentUrlIndex = url],
                       i, "reconnect", delay)
    ELSE handleConnectionError(w, i, "Max reconnection attempts reached")

connectA(w, i) ==
    IF w.cl[i].isConnecting THEN w
    ELSE LET w1 == [w EXCEPT !.cl[i].isConnecting = TRUE,
                             !.cl[i].lastConnectionTime = w.now]
             \* clearTimeout without resetting the field
             w2 == IF w1.cl[i].connectionTimeout # 0
                   THEN clearTimer(w1, i, "connectionTimeout") ELSE w1
         IN IF w.throws
            THEN handleReconnectA(
                     handleConnectionError(
                         [w2 EXCEPT !.cl[i].isConnecting = FALSE],
                         i, "Failed to create WebSocket"), i)
            ELSE [setTimeout(newSocket(w2, i), i, "connectionTimeout",
                             HandshakeTimeout)
                     EXCEPT !.cl[i].connectionTimeout = 1]

\* ws.onopen
onopenA(w, i) ==
    LET w1 == [w EXCEPT !.cl[i].isConnecting = FALSE,
                        !.cl[i].reconnectAttempts = 0,
                        !.cl[i].currentUrlIndex = 0]
        w2 == startDataTimeoutCheckA(
                  startHeartbeatA(clearConnectionTimeout(w1, i), i), i)
    IN Listener([w2 EXCEPT !.cl[i].lastDataReceived = w.now],
                i, "connection", TRUE)

\* ws.onmessage
onmessageA(w, i, data) ==
    LET w1 == [w EXCEPT !.cl[i].lastDataReceived = w.now] IN
    CASE data.e = "garbage" ->
           handleConnectionError(w1, i, "Message parsing error")
      [] data.e = "kline" ->
           Listener(Listener(w1, i, "kline", data), i, "ticker",
                    [data EXCEPT !.e = "24hrTicker", !.p = 0, !.P = 0])
      [] OTHER -> w1

\* ws.onclose
oncloseA(w, i, code) ==
    LET w1 == stopDataTimeoutCheck(
                  stopHeartbeat(
                      clearConnectionTimeout(
                          [w EXCEPT !.cl[i].isConnecting = FALSE], i), i), i)
        w2 == Listener(w1, i, "connection", FALSE)
    IN IF code # 1000 THEN handleReconnectA(w2, i) ELSE w2

\* ws.onerror
onerrorA(w, i) ==
    Listener(handleConnectionError([w EXCEPT !.cl[i].isConnecting = FALSE],
                                   i, "Connection error"),
             i, "connection", FALSE)

disconnectA(w, i) ==
    LET w1 == stopDataTimeoutCheck(
                  stopHeartbeat(clearConnectionTimeout(w, i), i), i)
        w2 == [w1 EXCEPT !.cl[i].isConnecting = FALSE,
                         !.cl[i].reconnectAttempts = 0]
    IN IF w2.cl[i].ws # 0
       THEN [wsClose(w2, w2.cl[i].ws, 1000, "disconnect") EXCEPT
                !.cl[i].ws = 0]
       ELSE w2

changeStreamA(w, i, symbol, interval) ==
    LET w1 == [w EXCEPT !.cl[i].symbol = toLowerCase(symbol),
                        !.cl[i].interval = interval,
                        !.cl[i].currentUrlIndex = 0,
                        !.cl[i].reconnectAttempts = 0]
    IN setTimeout(disconnectA(w1, i), i, "changeStream", ChangeStreamDelayA)

\* The callbacks of the client's timers.
timerA(w, i, kind) ==
    CASE kind = "connectionTimeout" ->
           IF ReadyState(w, i) = "CONNECTING"
           THEN wsClose(handleConnectionError(w, i, "Connection timeout"),
                        w.cl[i].ws, 1005, "timeout")
           ELSE w
      [] kind = "reconnect" ->
           IF ~isConnected(w, i) THEN connectA(w, i) ELSE w
      [] kind = "dataTimeoutCheck" ->
           IF ReadyState(w, i) = "OPEN"
              /\ w.now - w.cl[i].lastDataReceived > DataTimeoutA
           THEN wsClose(handleConnectionError(w, i, "Data timeout"),
                        w.cl[i].ws, 1000, "silence")
           ELSE w
      [] kind = "changeStream" -> connectA(w, i)
      [] OTHER -> w   \* pingInterval: logs only

-----------------------------------------------------------------------------
(* BinanceWebSocket, src/unnamed/part_005 (revision B: rate limit, circuit *)
(* breaker, extended backoff).                                             *)

WsUrlsB == 3
MaxReconnectAttemptsB == 3
MinSpacingB == 3000
ErrorThreshold == 3
PostErrorDelay == 5000
ExtendedAfter == 5
ExtendedWindow == 60000
ExtendedStep == 5000
ExtendedCap == 60000
BackoffBaseB == 3000
BackoffCapB == 60000
JitterB == 2000
PingPeriodB == 60000
DataCheckPeriodB == 30000
DataTimeoutB == 60000
ChangeStreamDelayB == 500

startHeartbeatB(w, i) ==
    [setTimeout(stopHeartbeat(w, i), i, "pingInterval", PingPeriodB) EXCEPT
        !.cl[i].pingInterval = 1]

startDataTimeoutCheckB(w, i) ==
    [setTimeout(stopDataTimeoutCheck(w, i), i, "dataTimeoutCheck",
                DataCheckPeriodB) EXCEPT !.cl[i].dataTimeoutCheck = 1]

handleReconnectB(w, i) ==
    LET c == w.cl[i] IN
    IF c.isCircuitBreakerActive THEN w
    ELSE IF c.reconnectAttempts < MaxReconnectAttemptsB
    THEN LET n == c.reconnectAttempts + 1
             url == IF n > 1 THEN (c.currentUrlIndex + 1) % WsUrlsB
                    ELSE c.currentUrlIndex
             baseDelay == MinOf(BackoffBaseB * Pow2(n - 1), BackoffCapB)
             delay == baseDelay + RandomTimes(w.rnd, JitterB)
         IN setTimeout([w EXCEPT !.cl[i].reconnectAttempts = n,
                                 !.cl[i].currentUrlIndex = url],
                       i, "reconnect", delay)
    ELSE handleConnectionError(
             [w EXCEPT !.cl[i].isCircuitBreakerActive = TRUE,
                       !.cl[i].lastErrorTime = w.now],
             i, "Max reconnection attempts reached")

\* The rate limit switched off.
rateLimitedNever(c, t) == FALSE

\* connect(): the rate limit
rateLimited(c, t) == t - c.lastConnectionTime < MinSpacingB

\* ws.onerror: const breakerDelay = Math.min(circuitBreakerDelay *
\* errorCount, 120000).  The handler writes it to the console and drops it.
BreakerDelayCap == 120000
breakerDelay(errorCount) ==
    MinOf(CircuitBreakerDelay * errorCount, BreakerDelayCap)

\* connect(): the circuit breaker guard
breakerBlocks(c, t) ==
    c.isCircuitBreakerActive /\ t - c.lastErrorTime < CircuitBreakerDelay

\* connect(): the extended backoff test, after connectionAttempts++
extendedBackoff(c, t) ==
    c.connectionAttempts > ExtendedAfter
      /\ t - c.lastSuccessfulConnection > ExtendedWindow

connectB(w, i) ==
    IF rateLimited(w.cl[i], w.now) THEN w
    ELSE IF w.cl[i].isConnecting THEN w
    ELSE IF breakerBlocks(w.cl[i], w.now) THEN w
    ELSE
      LET w0 == IF w.cl[i].isCircuitBreakerActive
                THEN [w EXCEPT !.cl[i].isCircuitBreakerActive = FALSE,
                               !.cl[i].errorCount = 0]
                ELSE w
          w1 == [w0 EXCEPT !.cl[i].connectionAttempts = @ + 1]
      IN IF extendedBackoff(w1.cl[i], w.now)
         THEN setTimeout(w1, i, "extendedBackoff",
                         MinOf(w1.cl[i].connectionAttempts * ExtendedStep,
                               ExtendedCap))
         ELSE
           LET w2 == [w1 EXCEPT !.cl[i].isConnecting = TRUE,
                                !.cl[i].lastConnectionTime = w.now]
               w3 == IF w2.cl[i].connectionTimeout # 0
                     THEN clearTimer(w2, i, "connectionTimeout") ELSE w2
           IN IF w.throws
              THEN LET w4 == handleConnectionError(
                                 [w3 EXCEPT !.cl[i].isConnecting = FALSE],
                                 i, "Failed to create WebSocket")
                       w5 == [w4 EXCEPT !.cl[i].errorCount = @ + 1]
                   IN IF w5.cl[i].errorCount >= ErrorThreshold
                      THEN [w5 EXCEPT !.cl[i].isCircuitBreakerActive = TRUE,
                                      !.cl[i].lastErrorTime = w.now]
                      ELSE w5
              ELSE [setTimeout(newSocket(w3, i), i, "connectionTimeout",
                               HandshakeTimeout)
                       EXCEPT !.cl[i].connectionTimeout = 1]

\* onopen leaving the attempt counter as it is.
onopenBKeepsAttempts(w, i) ==
    LET w1 == [w EXCEPT !.cl[i].isConnecting = FALSE,
                        !.cl[i].errorCount = 0,
                        !.cl[i].connectionAttempts = 0,
                        !.cl[i].lastSuccessfulConnection = w.now,
                        !.cl[i].currentUrlIndex = 0,
                        !.cl[i].isCircuitBreakerActive = FALSE]
        w2 == startDataTimeoutCheckB(
                  startHeartbeatB(clearConnectionTimeout(w1, i), i), i)
    IN Listener([w2 EXCEPT !.cl[i].lastDataReceived = w.now],
                i, "connection", TRUE)

\* ws.onopen
onopenB(w, i) ==
    LET w1 == [w EXCEPT !.cl[i].isConnecting = FALSE,
                        !.cl[i].reconnectAttempts = 0,
                        !.cl[i].errorCount = 0,
                        !.cl[i].connectionAttempts = 0,
                        !.cl[i].lastSuccessfulConnection = w.now,
                        !.cl[i].currentUrlIndex = 0,
                        !.cl[i].isCircuitBreakerActive = FALSE]
        w2 == startDataTimeoutCheckB(
                  startHeartbeatB(clearConnectionTimeout(w1, i), i), i)
    IN Listener([w2 EXCEPT !.cl[i].lastDataReceived = w.now],
                i, "connection", TRUE)

\* ws.onmessage notifying the ticker listener before the kline listener.
onmessageBTickerFirst(w, i, data) ==
    LET w0 == [w EXCEPT !.cl[i].lastDataReceived = w.now]
        w1 == IF ReadyState(w0, i) = "OPEN"
              THEN Listener(w0, i, "connection", TRUE) ELSE w0
    IN CASE data.e = "garbage" ->
              handleConnectionError(w1, i, "Message parsing error")
         [] data.e = "kline" ->
              Listener(Listener(w1, i, "ticker",
                                [data EXCEPT !.e = "24hrTicker", !.p = 0,
                                             !.P = 0]),
                       i, "kline", data)
         [] OTHER -> w1

\* ws.onmessage taking a message that does not parse for a failed connection.
onmessageBFatal(w, i, data) ==
    LET w0 == [w EXCEPT !.cl[i].lastDataReceived = w.now]
        w1 == IF ReadyState(w0, i) = "OPEN"
              THEN Listener(w0, i, "connection", TRUE) ELSE w0
    IN CASE data.e = "garbage" ->
              handleReconnectB(
                  handleConnectionError(w1, i, "Message parsing error"), i)
         [] data.e = "kline" ->
              Listener(Listener(w1, i, "kline", data), i, "ticker",
                       [data EXCEPT !.e = "24hrTicker", !.p = 0, !.P = 0])
         [] OTHER -> w1

\* ws.onmessage
onmessageB(w, i, data) ==
    LET w0 == [w EXCEPT !.cl[i].lastDataReceived = w.now]
        w1 == IF ReadyState(w0, i) = "OPEN"
              THEN Listener(w0, i, "connection", TRUE) ELSE w0
    IN CASE data.e = "garbage" ->
              handleConnectionError(w1, i, "Message parsing error")
         [] data.e = "kline" ->
              Listener(Listener(w1, i, "kline", data), i, "ticker",
                       [data EXCEPT !.e = "24hrTicker", !.p = 0, !.P = 0])
         [] OTHER -> w1

\* ws.onclose
oncloseB(w, i, code) ==
    LET w1 == stopDataTimeoutCheck(
                  stopHeartbeat(
                      clearConnectionTimeout(
                          [w EXCEPT !.cl[i].isConnecting = FALSE], i), i), i)
        w2 == Listener(w1, i, "connection", FALSE)
    IN IF code # 1000 /\ ~w2.cl[i].isCircuitBreakerActive
       THEN handleReconnectB(w2, i) ELSE w2

\* ws.onerror
onerrorB(w, i) ==
    LET w1 == [w EXCEPT !.cl[i].isConnecting = FALSE,
                        !.cl[i].errorCount = @ + 1,
                        !.cl[i].lastErrorTime = w.now]
        w2 == Listener(handleConnectionError(w1, i, "Connection error"),
                       i, "connection", FALSE)
    IN IF w2.cl[i].errorCount >= ErrorThreshold
       THEN [w2 EXCEPT !.cl[i].isCircuitBreakerActive = TRUE]
       ELSE setTimeout(w2, i, "postError", PostErrorDelay)

disconnectB(w, i) ==
    LET w1 == stopDataTimeoutCheck(
                  stopHeartbeat(clearConnectionTimeout(w, i), i), i)
        w2 == [w1 EXCEPT !.cl[i].isConnecting = FALSE,
                         !.cl[i].reconnectAttempts = 0,
                         !.cl[i].errorCount = 0,
                         !.cl[i].isCircuitBreakerActive = FALSE,
                         !.cl[i].connectionAttempts = 0]
    IN IF w2.cl[i].ws # 0
       THEN [wsClose(w2, w2.cl[i].ws, 1000, "disconnect") EXCEPT
                !.cl[i].ws = 0]
       ELSE w2

changeStreamB(w, i, symbol, interval) ==
    LET w1 == [w EXCEPT !.cl[i].symbol = toLowerCase(symbol),
                        !.cl[i].interval = interval,
                        !.cl[i].currentUrlIndex = 0,
                        !.cl[i].reconnectAttempts = 0,
                        !.cl[i].errorCount = 0,
                        !.cl[i].isCircuitBreakerActive = FALSE,
                        !.cl[i].connectionAttempts = 0]
        w2 == Listener(w1, i, "connection", FALSE)
    IN setTimeout(disconnectB(w2, i), i, "changeStream", ChangeStreamDelayB)

\* The callbacks of the client's timers.
timerB(w, i, kind) ==
    CASE kind = "connectionTimeout" ->
           IF ReadyState(w, i) = "CONNECTING"
           THEN wsClose(handleConnectionError(w, i, "Connection timeout"),
                        w.cl[i].ws, 1005, "timeout")
           ELSE w
      [] kind = "reconnect" ->
           IF ~isConnected(w, i) /\ ~w.cl[i].isCircuitBreakerActive
           THEN connectB(w, i) ELSE w
      [] kind = "postError" ->
           IF ~isConnected(w, i)
              /\ w.cl[i].reconnectAttempts < MaxReconnectAttemptsB
              /\ ~w.cl[i].isCircuitBreakerActive
           THEN handleReconnectB(w, i) ELSE w
      [] kind = "extendedBackoff" ->
           IF ~isConnected(w, i) THEN connectB(w, i) ELSE w
      [] kind = "dataTimeoutCheck" ->
           IF ReadyState(w, i) = "OPEN"
              /\ w.now - w.cl[i].lastDataReceived > DataTimeoutB
           THEN wsClose(handleConnectionError(w, i, "Data timeout"),
                        w.cl[i].ws, 1000, "silence")
           ELSE w
      [] kind = "changeStream" -> connectB(w, i)
      [] OTHER -> w   \* pingInterval: logs only

-----------------------------------------------------------------------------
(* The tasks of the event loop.                                            *)

\* Each instance runs the code of its revision.
connect(w, i) ==
    IF w.cl[i].rev = "A" THEN connectA(w, i) ELSE connectB(w, i)
disconnect(w, i) ==
    IF w.cl[i].rev = "A" THEN disconnectA(w, i) ELSE disconnectB(w, i)
changeStream(w, i, symbol, interval) ==
    IF w.cl[i].rev = "A" THEN changeStreamA(w, i, symbol, interval)
    ELSE changeStreamB(w, i, symbol, interval)
onopen(w, i) ==
    IF w.cl[i].rev = "A" THEN onopenA(w, i) ELSE onopenB(w, i)
onmessage(w, i, data) ==
    IF w.cl[i].rev = "A" THEN onmessageA(w, i, data) ELSE onmessageB(w, i, data)
onerror(w, i) ==
    IF w.cl[i].rev = "A" THEN onerrorA(w, i) ELSE onerrorB(w, i)
onclose(w, i, code) ==
    IF w.cl[i].rev = "A" THEN oncloseA(w, i, code) ELSE oncloseB(w, i, code)
clientTimer(w, i, kind) ==
    IF w.cl[i].rev = "A" THEN timerA(w, i, kind) ELSE timerB(w, i, kind)

-----------------------------------------------------------------------------
(* useMarketData, src/hooks/useMarketData.ts.                              *)

ConnectSpacing == 2000
ConnectDelay == 100
SymbolChangeWait == 500
FallbackPrice == 95000
PriceCacheTimeout == 30000
CacheTimeout == 300000
MonitoringPeriod == 120000
\* The 24 h change a ticker response carries.
TickerChange == 5

\* generateMockData()
MockCandles == [sym |-> "mock", tf |-> "", src |-> "mock", close |-> 0]

\* The useState and useRef values of the first render, and the dependencies
\* React keeps for the effects.  React compares a dependency with Object.is:
\* every array handed to setCandleData is a new one, so depCandles records
\* whether candleData is still the array the effect on [candleData] last saw.
NewHook(t) ==
    [currentSymbol |-> "BTCUSDT", currentTimeframe |-> "1d",
     isConnected |-> FALSE, connectionState |-> "Not initialized",
     currentPrice |-> NullPrice, priceChange |-> 0, priceChangePercent |-> 0,
     tickerData |-> "null", candleData |-> NoCandles, analysis |-> NoCandles,
     indicatorArrays |-> NoCandles, isLoading |-> TRUE, error |-> "null",
     wsError |-> "null", lastUpdate |-> 0, lastPriceUpdateTime |-> t,
     wsRef |-> 0, lastFetchTimeRef |-> 0, lastPriceFetchRef |-> 0,
     isRefreshingRef |-> FALSE, isChangingTimeframeRef |-> FALSE,
     isChangingSymbolRef |-> FALSE, lastSyncRef |-> 0,
     isConnectingRef |-> FALSE, lastConnectionAttemptRef |-> 0,
     depSymbol |-> "BTCUSDT", depTimeframe |-> "1d",
     depMonitoring |-> <<FALSE, t, "BTCUSDT">>, depCandles |-> TRUE]

\* What the callbacks created by the current render close over.
Env(w) ==
    [sym |-> w.orch.currentSymbol, tf |-> w.orch.currentTimeframe,
     price |-> w.orch.currentPrice,
     candles |-> w.orch.candleData # NoCandles,
     data |-> w.orch.candleData,
     isConnected |-> w.orch.isConnected,
     lastPriceUpdateTime |-> w.orch.lastPriceUpdateTime, target |-> ""]

\* fetchPriceData(force), up to its await
fetchPriceData(w, env, force, by) ==
    IF ~force /\ w.now - w.orch.lastPriceFetchRef < PriceCacheTimeout THEN w
    ELSE [w EXCEPT !.inflight =
             Append(@, [kind |-> "ticker", sym |-> env.sym, tf |-> "",
                        t0 |-> w.now, by |-> by, env |-> env])]

\* fetchData(timeframe, force), up to its await; timeframe "" is undefined
fetchData(w, env, timeframe, force, by) ==
    LET w1 == [w EXCEPT !.orch.error = "null"]
        intervalToUse == IF timeframe = "" THEN env.tf ELSE timeframe
    IN IF ~force /\ env.candles
          /\ w.now - w.orch.lastFetchTimeRef < CacheTimeout
       THEN [w1 EXCEPT !.orch.isLoading = FALSE]
       ELSE [w1 EXCEPT !.inflight =
                Append(@, [kind |-> "klines", sym |-> env.sym,
                           tf |-> intervalToUse, t0 |-> w.now, by |-> by,
                           env |-> env])]

\* What the caller of fetchData does when the promise settles.
afterKlines(w, req) ==
    CASE req.by = "changeSymbol" ->
           [w EXCEPT !.orch.isChangingSymbolRef = FALSE,
                     !.orch.isLoading = FALSE]
      [] req.by = "changeTimeframe" ->
           [w EXCEPT !.orch.isChangingTimeframeRef = FALSE,
                     !.orch.isLoading = FALSE]
      [] req.by = "refresh" ->
           [w EXCEPT !.orch.analysis = IF req.env.candles THEN req.env.data
                                       ELSE @,
                     !.orch.indicatorArrays = IF req.env.candles
                                              THEN req.env.data ELSE @,
                     !.orch.isRefreshingRef = FALSE,
                     !.orch.isLoading = FALSE]
      [] OTHER -> w

\* What fetchKlines rejects with: an Error with a message, or a value that
\* is not an Error.
Rejections ==
    {[isError |-> TRUE, message |-> "Network down"],
     [isError |-> FALSE, message |-> ""]}

\* How the fetchKlines request of fetchData settles: with candles whose
\* latest close is v or with an empty array when it resolves, with one of
\* Rejections when it rejects.
KlinesSettlements(ok, v) ==
    IF ok
    THEN {[ok |-> TRUE, empty |-> e, close |-> v, isError |-> FALSE,
           message |-> ""] : e \in BOOLEAN}
    ELSE {[ok |-> FALSE, empty |-> FALSE, close |-> v, isError |-> r.isError,
           message |-> r.message] : r \in Rejections}

\* fetchData after the await: fetchKlines settled with res.
klinesSettled(w, req, res) ==
    LET ok == res.ok
        close == res.close
        live == req.env.price.v
        adjusted == IF live # 0
                       /\ 100 * (IF live > close THEN live - close
                                 ELSE close - live) < 5 * close
                    THEN live ELSE close
        candles == [sym |-> req.sym, tf |-> req.tf, src |-> "binance",
                    close |-> adjusted]
        w1 == IF ok /\ res.empty
              THEN [w EXCEPT
                      !.orch.candleData = NoCandles,
                      !.orch.depCandles = FALSE,
                      !.orch.lastFetchTimeRef = req.t0,
                      !.orch.lastUpdate = w.now,
                      !.log = Append(@, [what |-> "empty", sym |-> req.sym,
                                         by |-> req.by,
                                         target |-> req.env.target])]
              ELSE IF ok
              THEN [w EXCEPT
                      !.orch.candleData = candles,
                      !.orch.depCandles = FALSE,
                      !.orch.currentPrice =
                          IF live = 0 THEN [sym |-> req.sym, v |-> adjusted]
                          ELSE @,
                      !.orch.analysis = candles,
                      !.orch.indicatorArrays = candles,
                      !.orch.lastFetchTimeRef = req.t0,
                      !.orch.lastUpdate = w.now,
                      !.log = Append(@, [what |-> "klines", sym |-> req.sym,
                                         by |-> req.by,
                                         target |-> req.env.target])]
              ELSE [w EXCEPT
                      !.orch.error = IF res.isError THEN res.message
                                     ELSE "Failed to fetch market data",
                      !.orch.candleData = MockCandles,
                      !.orch.depCandles = FALSE,
                      !.orch.analysis = MockCandles,
                      !.orch.indicatorArrays = MockCandles,
                      !.orch.lastUpdate = w.now,
                      !.log = Append(@, [what |-> "mock", sym |-> "mock",
                                         by |-> req.by,
                                         target |-> req.env.target])]
    IN afterKlines([w1 EXCEPT !.orch.isLoading = FALSE], req)

\* What the caller of fetchPriceData does when the promise settles.
afterTicker(w, req) ==
    CASE req.by = "init" -> fetchData(w, req.env, "", TRUE, "init")
      [] req.by = "changeSymbol" ->
           fetchData(w, req.env, req.env.tf, TRUE, "changeSymbol")
      [] req.by = "refresh" -> fetchData(w, req.env, "", TRUE, "refresh")
      [] OTHER -> w

\* fetchPriceData after the await: fetch24hrTicker resolved with a ticker
\* whose last price is `price`, or rejected.
tickerSettled(w, req, ok, price) ==
    LET w1 == IF ok
              THEN [w EXCEPT
                      !.orch.tickerData = req.sym,
                      !.orch.currentPrice = [sym |-> req.sym, v |-> price],
                      !.orch.priceChange = TickerChange,
                      !.orch.priceChangePercent = TickerChange,
                      !.orch.lastPriceFetchRef = req.t0,
                      !.log = Append(@, [what |-> "ticker", sym |-> req.sym,
                                         by |-> req.by,
                                         target |-> req.env.target])]
              ELSE [w EXCEPT
                      !.orch.currentPrice =
                          [sym |-> "fallback", v |-> FallbackPrice],
                      !.orch.priceChange = 0,
                      !.orch.priceChangePercent = 0,
                      !.log = Append(@, [what |-> "fallback",
                                         sym |-> "fallback", by |-> req.by,
                                         target |-> req.env.target])]
    IN afterTicker(w1, req)

\* wsRef.current.disconnect()
wsRefDisconnect(w) ==
    IF w.orch.wsRef # 0
    THEN [disconnect([w EXCEPT !.hist[w.orch.wsRef].disc = TRUE],
                     w.orch.wsRef)
            EXCEPT !.orch.wsRef = 0]
    ELSE w

connectWebSocket(w, env) ==
    IF w.now - w.orch.lastConnectionAttemptRef < ConnectSpacing THEN w
    ELSE IF w.orch.isConnectingRef THEN w
    ELSE setTimeoutEnv(
             wsRefDisconnect([w EXCEPT !.orch.isConnectingRef = TRUE,
                                       !.orch.lastConnectionAttemptRef = w.now]),
             0, "connectWebSocket", ConnectDelay, env)

\* createBinanceWebSocket(symbol, interval) with the four listeners
\* registered
createBinanceWebSocket(w, symbol, interval) ==
    [w EXCEPT !.cl = Append(@, NewClient(cfg.rev, symbol, interval, TRUE)),
              !.hist = Append(@, NoHist),
              !.orch.wsRef = Len(w.cl) + 1,
              !.ok = w.ok /\ Len(w.cl) < cfg.clients]

\* changeTimeframe with the in-progress flag set before the comparison.
changeTimeframeFlagFirst(w, env, newTimeframe) ==
    IF newTimeframe = env.tf
    THEN [w EXCEPT !.orch.isChangingTimeframeRef = TRUE, !.note = "same"]
    ELSE IF w.orch.isChangingTimeframeRef THEN [w EXCEPT !.note = "busy"]
    ELSE fetchData([w EXCEPT !.orch.isChangingTimeframeRef = TRUE,
                             !.orch.currentTimeframe = newTimeframe,
                             !.orch.isLoading = TRUE,
                             !.orch.error = "null",
                             !.note = "changed"],
                   env, newTimeframe, TRUE, "changeTimeframe")

changeTimeframe(w, env, newTimeframe) ==
    IF newTimeframe = env.tf THEN [w EXCEPT !.note = "same"]
    ELSE IF w.orch.isChangingTimeframeRef THEN [w EXCEPT !.note = "busy"]
    ELSE fetchData([w EXCEPT !.orch.isChangingTimeframeRef = TRUE,
                             !.orch.currentTimeframe = newTimeframe,
                             !.orch.isLoading = TRUE,
                             !.orch.error = "null",
                             !.note = "changed"],
                   env, newTimeframe, TRUE, "changeTimeframe")

changeSymbol(w, env, newSymbol) ==
    IF newSymbol = env.sym THEN [w EXCEPT !.note = "same"]
    ELSE IF w.orch.isChangingSymbolRef THEN [w EXCEPT !.note = "busy"]
    ELSE setTimeoutEnv(
             [w EXCEPT !.orch.isChangingSymbolRef = TRUE,
                       !.orch.currentSymbol = newSymbol,
                       !.orch.isLoading = TRUE,
                       !.orch.error = "null",
                       !.orch.isConnected = FALSE,
                       !.orch.connectionState = "Connecting",
                       !.orch.candleData = NoCandles,
                       !.orch.depCandles = FALSE,
                       !.orch.analysis = NoCandles,
                       !.orch.indicatorArrays = NoCandles,
                       !.orch.currentPrice = NullPrice,
                       !.orch.priceChange = 0,
                       !.orch.priceChangePercent = 0,
                       !.orch.tickerData = "null",
                       !.note = "changed"],
             0, "changeSymbol", SymbolChangeWait,
             [env EXCEPT !.target = newSymbol])

\* refreshData() without its guard.
refreshDataUnguarded(w, env) ==
    fetchPriceData([w EXCEPT !.orch.isRefreshingRef = TRUE,
                             !.orch.isLoading = TRUE,
                             !.orch.error = "null",
                             !.note = "started"],
                   env, TRUE, "refresh")

\* refreshData(), up to its first await
refreshData(w, env) ==
    IF w.orch.isRefreshingRef THEN [w EXCEPT !.note = "busy"]
    ELSE fetchPriceData([w EXCEPT !.orch.isRefreshingRef = TRUE,
                                  !.orch.isLoading = TRUE,
                                  !.orch.error = "null",
                                  !.note = "started"],
                        env, TRUE, "refresh")

\* The callbacks of the hook's timers, the monitoring interval fetching
\* whether or not the client is reported connected.
hookTimerUnconnected(w, t) ==
    CASE t.kind = "connectWebSocket" ->
           LET w1 == createBinanceWebSocket(w, t.env.sym, t.env.tf)
               w2 == connect(w1, w1.orch.wsRef)
           IN [w2 EXCEPT !.orch.connectionState = "Connecting",
                         !.orch.isConnectingRef = FALSE]
      [] t.kind = "changeSymbol" ->
           fetchPriceData(w, t.env, TRUE, "changeSymbol")
      [] t.kind = "monitoring" ->
           IF w.now - t.env.lastPriceUpdateTime > MonitoringPeriod
           THEN fetchPriceData(w, t.env, TRUE, "monitoring")
           ELSE w
      [] OTHER -> [w EXCEPT !.orch.wsError = "null"]

\* The callbacks of the hook's timers.
hookTimer(w, t) ==
    CASE t.kind = "connectWebSocket" ->
           LET w1 == createBinanceWebSocket(w, t.env.sym, t.env.tf)
               w2 == connect(w1, w1.orch.wsRef)
           IN [w2 EXCEPT !.orch.connectionState = "Connecting",
                         !.orch.isConnectingRef = FALSE]
      [] t.kind = "changeSymbol" ->
           fetchPriceData(w, t.env, TRUE, "changeSymbol")
      [] t.kind = "monitoring" ->
           IF w.now - t.env.lastPriceUpdateTime > MonitoringPeriod
              /\ t.env.isConnected
           THEN fetchPriceData(w, t.env, TRUE, "monitoring")
           ELSE w
      [] OTHER -> [w EXCEPT !.orch.wsError = "null"]   \* clearWsError

\* The effect on [currentSymbol, currentTimeframe]: its cleanup, then
\* connectWebSocket() of the new render.
webSocketEffect(w) ==
    IF w.orch.depSymbol = w.orch.currentSymbol
       /\ w.orch.depTimeframe = w.orch.currentTimeframe
    THEN w
    ELSE connectWebSocket(
             [wsRefDisconnect(w) EXCEPT
                 !.orch.isConnectingRef = FALSE,
                 !.orch.depSymbol = w.orch.currentSymbol,
                 !.orch.depTimeframe = w.orch.currentTimeframe],
             Env(w))

\* The effect on [isConnected, lastPriceUpdateTime, fetchPriceData]:
\* clearInterval, then setInterval of the new render's callback.
monitoringEffect(w) ==
    LET deps == <<w.orch.isConnected, w.orch.lastPriceUpdateTime,
                  w.orch.currentSymbol>>
    IN IF w.orch.depMonitoring = deps THEN w
       ELSE setTimeoutEnv(
                [clearTimer(w, 0, "monitoring") EXCEPT
                    !.orch.depMonitoring = deps],
                0, "monitoring", MonitoringPeriod, Env(w))

\* The effect on [candleData]: it runs after every render in which
\* candleData is a new array, equal to the old one or not, and computes the
\* analysis of the candles shown again.
analysisEffect(w) ==
    IF w.orch.depCandles THEN w
    ELSE IF w.orch.candleData # NoCandles
         THEN [w EXCEPT !.orch.depCandles = TRUE,
                        !.orch.analysis = w.orch.candleData,
                        !.orch.indicatorArrays = w.orch.candleData]
         ELSE [w EXCEPT !.orch.depCandles = TRUE]

\* The effects, in the order the hook declares them.
runEffects(w) == analysisEffect(monitoringEffect(webSocketEffect(w)))

\* A task ends: React re-renders and runs the effects whose dependencies
\* changed; the variables take the values the task left.
Commit(w0, ev, c) ==
    LET w == IF cfg.sys = "hook" THEN runEffects(w0) ELSE w0 IN
    /\ w.ok
    /\ Len(w.timers) <= MaxTimers
    /\ cl' = w.cl
    /\ socks' = w.socks
    /\ timers' = w.timers
    /\ orch' = w.orch
    /\ inflight' = w.inflight
    /\ hist' = [i \in DOMAIN w.hist |->
                   IF i \in DOMAIN cl
                      /\ ~cl[i].isCircuitBreakerActive
                      /\ w.cl[i].isCircuitBreakerActive
                   THEN [w.hist[i] EXCEPT !.tripAt = now, !.exitBy = "none",
                                          !.exitEarly = FALSE]
                   ELSE IF i \in DOMAIN cl
                           /\ cl[i].isCircuitBreakerActive
                           /\ ~w.cl[i].isCircuitBreakerActive
                        THEN [w.hist[i] EXCEPT
                                 !.exitBy = ev,
                                 !.exitEarly =
                                     now - w.hist[i].tripAt < CircuitBreakerDelay]
                        ELSE w.hist[i]]
    /\ last' = [ev |-> ev, c |-> c, cbs |-> w.cbs, log |-> w.log,
                note |-> w.note]
    /\ UNCHANGED <<now, cache, cfg>>

Standalone == cfg.sys \in {"A", "B"}
\* The environment (the caller, the network) acts at the points of a grid;
\* timers fire at their deadlines, on the grid or between its points.
OnGrid == (now - StartTime) % cfg.quantum = 0
Clients == 1 .. Len(cl)
Sockets == 1 .. Len(socks)

\* History: what the breaker guard of connect() will see.
ConnectNote(c) ==
    IF ~c.isCircuitBreakerActive THEN "closed"
    ELSE IF now - c.lastErrorTime < CircuitBreakerDelay THEN "cooldown"
    ELSE "elapsed"

\* A socket after its close event: it dispatches no further event.
Closed(sock) ==
    [sock EXCEPT !.readyState = "CLOSED", !.created = 0, !.closedIn = "NONE",
                 !.closeCode = 0, !.why = "none"]

\* A caller of the class invokes connect().
ApiConnect(i) ==
    /\ Standalone /\ OnGrid /\ calls < cfg.calls /\ calls' = calls + 1
    /\ \E r \in RandomDraws, th \in CtorThrows :
         Commit(connect([World(r) EXCEPT !.hist[i].disc = FALSE,
                                         !.throws = th,
                                         !.note = ConnectNote(cl[i])], i),
                "connect", i)

\* A caller of the class invokes disconnect().
ApiDisconnect(i) ==
    /\ Standalone /\ OnGrid /\ calls < cfg.calls /\ calls' = calls + 1
    /\ Commit(disconnect([World(0) EXCEPT !.hist[i].disc = TRUE], i),
              "disconnect", i)

\* A caller of the class invokes changeStream(symbol, interval).
ApiChangeStream(i, symbol, interval) ==
    /\ Standalone /\ OnGrid /\ calls < cfg.calls /\ calls' = calls + 1
    /\ Commit(changeStream([World(0) EXCEPT !.hist[i].disc = FALSE], i,
                           symbol, interval), "changeStream", i)

\* The handshake of socket s succeeds: the open event.
SockOpen(s) ==
    /\ OnGrid
    /\ socks[s].readyState = "CONNECTING"
    /\ Commit(onopen([World(0) EXCEPT !.socks[s].readyState = "OPEN"],
                     socks[s].owner), "open", socks[s].owner)
    /\ UNCHANGED calls

\* Socket s delivers a message: the message event.
SockMessage(s, data) ==
    /\ OnGrid
    /\ socks[s].readyState = "OPEN"
    /\ Commit(onmessage(World(0), socks[s].owner, data),
              "message", socks[s].owner)
    /\ UNCHANGED calls

\* The connection of socket s fails (handshake failure, network error, or
\* close() called before the handshake ended): the socket is closed, the
\* error event and then the close event (code 1006) are dispatched.
SockFail(s) ==
    /\ OnGrid
    /\ \/ socks[s].readyState \in {"CONNECTING", "OPEN"}
       \/ socks[s].readyState = "CLOSING" /\ socks[s].closedIn = "CONNECTING"
    /\ \E r \in RandomDraws :
         LET i == socks[s].owner
             w == [World(r) EXCEPT !.socks[s] = Closed(@)]
         IN Commit(onclose(onerror(w, i), i, 1006), "fail", i)
    /\ UNCHANGED calls

\* The connection of socket s is closed without an error: by the server or
\* a lost connection (open socket), or when the closing handshake that
\* close(code) started ends (with that code, or 1006 if the peer is gone).
SockClose(s, code) ==
    /\ OnGrid
    /\ \/ socks[s].readyState = "OPEN"
       \/ /\ socks[s].readyState = "CLOSING"
          /\ socks[s].closedIn = "OPEN"
          /\ code \in {socks[s].closeCode, 1006}
    /\ \E r \in RandomDraws :
         LET i == socks[s].owner
             w == [World(r) EXCEPT !.socks[s] = Closed(@)]
         IN Commit(onclose(w, i, code),
                   IF socks[s].why = "silence" THEN "closeSilence" ELSE "close",
                   i)
    /\ UNCHANGED calls

\* The timer that fires next: the earliest deadline, the oldest first.
DueTimer ==
    LET due == {k \in 1 .. Len(timers) : timers[k].at <= now}
        first == {k \in due : \A j \in due : timers[k].at <= timers[j].at}
    IN IF due = {} THEN 0 ELSE Min(first)

RemoveAt(seq, k) ==
    [j \in 1 .. (Len(seq) - 1) |-> IF j < k THEN seq[j] ELSE seq[j + 1]]

IsInterval(kind) == kind \in {"pingInterval", "dataTimeoutCheck", "monitoring"}

\* A timer callback runs.  A setInterval timer stays armed.
FireTimer ==
    /\ DueTimer # 0
    /\ \E r \in RandomDraws, th \in CtorThrows :
         LET k == DueTimer
             t == timers[k]
             rest == RemoveAt(timers, k)
             w == [World(r) EXCEPT
                      !.throws = th,
                      !.timers = IF IsInterval(t.kind)
                                 THEN Append(rest, [t EXCEPT !.at = @ + t.delay])
                                 ELSE rest]
         IN Commit(IF t.owner = 0 THEN hookTimer(w, t)
                   ELSE clientTimer(w, t.owner, t.kind), t.kind, t.owner)
    /\ UNCHANGED calls

\* The next point of the grid on which the environment's events are timed.
NextGrid == now + cfg.quantum - ((now - StartTime) % cfg.quantum)

\* Time passes, up to the next timer deadline.
Tick ==
    /\ DueTimer = 0
    /\ now < StartTime + cfg.horizon
    /\ now' = Min({NextGrid, StartTime + cfg.horizon}
                  \cup {timers[k].at : k \in 1 .. Len(timers)})
    /\ last' = [ev |-> "tick", c |-> 0, cbs |-> <<>>, log |-> <<>>, note |-> ""]
    /\ UNCHANGED <<cl, socks, timers, orch, cache, inflight, hist, calls, cfg>>

-----------------------------------------------------------------------------------------------------------------------------------------------------
(* The client alone, driven by an arbitrary caller.                       *)

NoOrch == [wsRef |-> 0]
NoLast == [ev |-> "init", c |-> 0, cbs |-> <<>>, log |-> <<>>, note |-> ""]

\* The state after new BinanceWebSocket("btcusdt", "1d") of a revision.
InitClient(rev, c) ==
    /\ now = StartTime
    /\ cl = <<NewClient(rev, "BTCUSDT", "1d", FALSE)>>
    /\ socks = <<>>
    /\ timers = <<>>
    /\ orch = NoOrch
    /\ cache = <<>>
    /\ inflight = <<>>
    /\ hist = <<NoHist>>
    /\ calls = 0
    /\ last = NoLast
    /\ cfg = c

NextClient ==
    \/ \E i \in Clients : ApiConnect(i)
    \/ \E i \in Clients : ApiDisconnect(i)
    \/ \E i \in Clients, sy \in {"ETHUSDT"}, iv \in {"1h"} :
         ApiChangeStream(i, sy, iv)
    \/ \E s \in Sockets : SockOpen(s)
    \/ \E s \in Sockets :
         \E data \in Msgs(toUpperCase(socks[s].symbol), cfg.prices) :
            SockMessage(s, data)
    \/ \E s \in Sockets : SockFail(s)
    \/ \E s \in Sockets, code \in CloseCodes : SockClose(s, code)
    \/ FireTimer
    \/ Tick

\* The endpoint is unreachable (every handshake fails) and the caller only
\* retries connect().
NextDown ==
    \/ \E i \in Clients : ApiConnect(i)
    \/ \E s \in Sockets : SockFail(s)
    \/ FireTimer
    \/ Tick

\* How long a run lasts, how finely the environment's events are timed, how
\* many public calls the caller makes, how many sockets are constructed, and
\* how many values Math.random() is drawn from.
HorizonA == 12000
QuantumA == 5000
CallsA == 2
SocksA == 3
RandA == 2

SpecA ==
    InitClient("A", [sys |-> "A", horizon |-> HorizonA, quantum |-> QuantumA,
                     calls |-> CallsA, socks |-> SocksA, rand |-> RandA,
                     prices |-> {100}])
      /\ [][NextClient]_vars

\* Revision A over the long run: one public call, coarse timing.
HorizonASlow == 50000
QuantumASlow == 15000
CallsASlow == 1
SocksASlow == 3
RandASlow == 2

SpecASlow ==
    InitClient("A", [sys |-> "A", horizon |-> HorizonASlow,
                     quantum |-> QuantumASlow, calls |-> CallsASlow,
                     socks |-> SocksASlow, rand |-> RandASlow,
                     prices |-> {100}])
      /\ [][NextClient]_vars

HorizonB == 25000
QuantumB == 5000
CallsB == 2
SocksB == 3
RandB == 1

SpecB ==
    InitClient("B", [sys |-> "B", horizon |-> HorizonB, quantum |-> QuantumB,
                     calls |-> CallsB, socks |-> SocksB, rand |-> RandB,
                     prices |-> {100}])
      /\ [][NextClient]_vars

\* Either revision of the client, each under its own bounds.
SpecClients ==
    /\ \/ InitClient("A", [sys |-> "A", horizon |-> HorizonA,
                           quantum |-> QuantumA, calls |-> CallsA,
                           socks |-> SocksA, rand |-> RandA, prices |-> {100}])
       \/ InitClient("B", [sys |-> "B", horizon |-> HorizonB,
                           quantum |-> QuantumB, calls |-> CallsB,
                           socks |-> SocksB, rand |-> RandB, prices |-> {100}])
    /\ [][NextClient]_vars

\* Revision A long enough for its five attempts to be used up, or revision
\* B.
HorizonReconnect == 50000
QuantumReconnect == 5000
CallsReconnect == 1
SocksReconnect == 6
RandReconnect == 2

SpecReconnect ==
    /\ \/ InitClient("A", [sys |-> "A", horizon |-> HorizonReconnect,
                           quantum |-> QuantumReconnect,
                           calls |-> CallsReconnect, socks |-> SocksReconnect,
                           rand |-> RandReconnect, prices |-> {100}])
       \/ InitClient("B", [sys |-> "B", horizon |-> HorizonB,
                           quantum |-> QuantumB, calls |-> CallsB,
                           socks |-> SocksB, rand |-> RandB, prices |-> {100}])
    /\ [][NextClient]_vars

\* Revision B against an unreachable endpoint.
HorizonBDown == 55000
QuantumBDown == 3000
CallsBDown == 4
SocksBDown == 5
RandBDown == 1

SpecBDown ==
    InitClient("B", [sys |-> "B", horizon |-> HorizonBDown,
                     quantum |-> QuantumBDown, calls |-> CallsBDown,
                     socks |-> SocksBDown, rand |-> RandBDown,
                     prices |-> {100}])
      /\ [][NextDown]_vars

-----------------------------------------------------------------------------
(* The hook with the clients it constructs, driven by a user and by the   *)
(* fetch service.                                                         *)

\* The user picks a symbol in the selector.
UserChangeSymbol(newSymbol) ==
    /\ cfg.sys = "hook" /\ OnGrid /\ calls < cfg.calls /\ calls' = calls + 1
    /\ Commit(changeSymbol(World(0), Env(World(0)), newSymbol),
              "changeSymbol", 0)

\* The user picks a timeframe.
UserChangeTimeframe(newTimeframe) ==
    /\ cfg.sys = "hook" /\ OnGrid /\ calls < cfg.calls /\ calls' = calls + 1
    /\ Commit(changeTimeframe(World(0), Env(World(0)), newTimeframe),
              "changeTimeframe", 0)

\* The user presses refresh.
UserRefresh ==
    /\ cfg.sys = "hook" /\ OnGrid /\ calls < cfg.calls /\ calls' = calls + 1
    /\ Commit(refreshData(World(0), Env(World(0))), "refresh", 0)

\* A request to the fetch service settles: it resolves with a price, or
\* rejects.
HttpSettles(k, ok, v) ==
    /\ cfg.sys = "hook" /\ OnGrid
    /\ k \in 1 .. Len(inflight)
    /\ LET req == inflight[k]
           w == [World(0) EXCEPT !.inflight = RemoveAt(inflight, k)]
       IN IF req.kind = "ticker"
          THEN Commit(tickerSettled(w, req, ok, v),
                      IF ok THEN "tickerResolved" ELSE "tickerRejected", 0)
          ELSE \E res \in KlinesSettlements(ok, v) :
                  Commit(klinesSettled(w, req, res),
                         IF ok THEN "klinesResolved" ELSE "klinesRejected", 0)
    /\ UNCHANGED calls

NextHook ==
    \/ \E sy \in Symbols : UserChangeSymbol(sy)
    \/ \E iv \in Intervals : UserChangeTimeframe(iv)
    \/ \E k \in 1 .. Len(inflight), ok \in BOOLEAN, v \in cfg.prices :
         HttpSettles(k, ok, v)
    \/ \E s \in Sockets : SockOpen(s)
    \/ \E s \in Sockets :
         \E data \in Msgs(toUpperCase(socks[s].symbol), cfg.prices) :
            SockMessage(s, data)
    \/ \E s \in Sockets : SockFail(s)
    \/ \E s \in Sockets, code \in CloseCodes : SockClose(s, code)
    \/ FireTimer
    \/ Tick

\* The hook just mounted: the first render, then its effects in order: the
\* WebSocket effect called connectWebSocket(), initializeData() called
\* fetchPriceData(true), the monitoring interval was set.
Mounted ==
    LET w0 == [now |-> StartTime, cl |-> <<>>, socks |-> <<>>, timers |-> <<>>,
               orch |-> NewHook(StartTime), inflight |-> <<>>, hist |-> <<>>,
               cbs |-> <<>>, log |-> <<>>, note |-> "", rnd |-> 0,
               throws |-> FALSE, ok |-> TRUE]
        w1 == connectWebSocket(w0, Env(w0))
        w2 == fetchPriceData(w1, Env(w0), TRUE, "init")
    IN setTimeoutEnv(w2, 0, "monitoring", MonitoringPeriod, Env(w0))

InitHook(c) ==
    /\ now = StartTime
    /\ cl = Mounted.cl
    /\ socks = Mounted.socks
    /\ timers = Mounted.timers
    /\ orch = Mounted.orch
    /\ cache = <<>>
    /\ inflight = Mounted.inflight
    /\ hist = Mounted.hist
    /\ calls = 0
    /\ last = NoLast
    /\ cfg = c

HorizonHook == 2200
QuantumHook == 2000
CallsHook == 1
SocksHook == 3
ClientsHook == 3
RandHook == 1

SpecHook ==
    InitHook([sys |-> "hook", rev |-> "A", horizon |-> HorizonHook,
              quantum |-> QuantumHook, calls |-> CallsHook,
              socks |-> SocksHook, clients |-> ClientsHook,
              rand |-> RandHook, prices |-> {100}])
      /\ [][NextHook]_vars

\* The two places that space connection attempts: a revision B client driven
\* by an arbitrary caller, and the hook constructing revision B clients.
SpecSpacing ==
    /\ \/ InitClient("B", [sys |-> "B", horizon |-> HorizonB,
                           quantum |-> QuantumB, calls |-> CallsB,
                           socks |-> SocksB, rand |-> RandB, prices |-> {100}])
       \/ InitHook([sys |-> "hook", rev |-> "B", horizon |-> HorizonHook,
                    quantum |-> QuantumHook, calls |-> CallsHook,
                    socks |-> SocksHook, clients |-> ClientsHook,
                    rand |-> RandHook, prices |-> {100}])
    /\ [][NextClient \/ NextHook]_vars

\* The hook left alone over more than two monitoring periods: the socket
\* opens, delivers messages that parse and closes normally, requests settle
\* within SettleMonitor, timers fire, time passes.
HorizonMonitor == 250000
QuantumMonitor == 10000
SettleMonitor == 10000
SocksMonitor == 1
ClientsMonitor == 1
RandMonitor == 1

NextMonitor ==
    \/ \E k \in 1 .. Len(inflight), ok \in BOOLEAN, v \in cfg.prices :
         /\ now - inflight[k].t0 <= SettleMonitor
         /\ HttpSettles(k, ok, v)
    \/ \E s \in Sockets : SockOpen(s)
    \/ \E s \in Sockets :
         \E data \in Msgs(toUpperCase(socks[s].symbol), cfg.prices) :
            data.e # "garbage" /\ SockMessage(s, data)
    \/ \E s \in Sockets : SockClose(s, 1000)
    \/ FireTimer
    \/ Tick

SpecMonitor ==
    /\ InitHook([sys |-> "hook", rev |-> "A", horizon |-> HorizonMonitor,
                 quantum |-> QuantumMonitor, calls |-> 0,
                 socks |-> SocksMonitor, clients |-> ClientsMonitor,
                 rand |-> RandMonitor, prices |-> {100}])
    /\ [][NextMonitor]_vars

\* The hook with revision B clients and a user who does nothing, on an
\* endpoint that accepts or fails handshakes.
HorizonOffline == 45000
QuantumOffline == 3000
SocksOffline == 4
ClientsOffline == 1
RandOffline == 1

NextOffline ==
    \/ \E k \in 1 .. Len(inflight), ok \in BOOLEAN, v \in cfg.prices :
         /\ now - inflight[k].t0 <= SettleMonitor
         /\ HttpSettles(k, ok, v)
    \/ \E s \in Sockets : SockOpen(s)
    \/ \E s \in Sockets : SockFail(s)
    \/ FireTimer
    \/ Tick

SpecOffline ==
    /\ InitHook([sys |-> "hook", rev |-> "B", horizon |-> HorizonOffline,
                 quantum |-> QuantumOffline, calls |-> 0,
                 socks |-> SocksOffline, clients |-> ClientsOffline,
                 rand |-> RandOffline, prices |-> {100}])
    /\ [][NextOffline]_vars

\* The hook with a user who only refreshes; the sockets stay silent.
NextRefresh ==
    \/ UserRefresh
    \/ \E k \in 1 .. Len(inflight), ok \in BOOLEAN, v \in cfg.prices :
         HttpSettles(k, ok, v)
    \/ FireTimer
    \/ Tick

HorizonRefresh == 3000
QuantumRefresh == 1000
CallsRefresh == 3
SocksRefresh == 2
ClientsRefresh == 2
RandRefresh == 1

SpecRefresh ==
    InitHook([sys |-> "hook", rev |-> "A", horizon |-> HorizonRefresh,
              quantum |-> QuantumRefresh, calls |-> CallsRefresh,
              socks |-> SocksRefresh, clients |-> ClientsRefresh,
              rand |-> RandRefresh, prices |-> {100}])
      /\ [][NextRefresh]_vars

-----------------------------------------------------------------------------
(* The freshness cache of the market-signals route,                       *)
(* src/app/api/ai/analyze/route.ts: cache, cleanupCache, getCachedData.   *)

\* CACHE_TTL.indicators, CACHE_TTL.sentiment
TtlIndicators == 600000
TtlSentiment == 300000
\* if (Math.random() < 0.1): the sweep runs for a draw below SweepOneIn-th
SweepOneIn == 10

\* The keys the route uses and the ttl it passes with each.
CacheKeys == {"bull-market-indicators", "market-sentiment"}
TtlOf(key) == IF key = "bull-market-indicators" THEN TtlIndicators
              ELSE TtlSentiment

\* cache.get(key) of a key that has no entry
NoEntry == [present |-> FALSE, data |-> 0, timestamp |-> 0, ttl |-> 0]

\* A sweep that lets an entry live for three times its ttl.
cleanupCacheLate(m, t) ==
    [k \in DOMAIN m |->
        IF m[k].present /\ t - m[k].timestamp > 3 * m[k].ttl THEN NoEntry
        ELSE m[k]]

\* cleanupCache(): deletes the entries older than their ttl
cleanupCache(m, t) ==
    [k \in DOMAIN m |->
        IF m[k].present /\ t - m[k].timestamp > m[k].ttl THEN NoEntry
        ELSE m[k]]

\* The freshness test with the bound included.
isFreshInclusive(cached, t) ==
    cached.present /\ t - cached.timestamp <= cached.ttl

\* getCachedData: the cached entry is fresh
isFresh(cached, t) == cached.present /\ t - cached.timestamp < cached.ttl

\* getCachedData(key, fetchFn, ttl) up to its await: the occasional sweep,
\* the lookup, and either the return of a fresh entry or the call of fetchFn.
getCachedData(key, ttl) ==
    /\ cfg.sys = "cache"
    /\ \E r \in RandomDraws :
         LET sweeps == SweepOneIn * r < cfg.rand
             swept == IF sweeps THEN cleanupCache(cache, now) ELSE cache
             cached == swept[key]
             req == [key |-> key, ttl |-> ttl, cached |-> cached,
                     stored |-> hist[key]]
         IN /\ cache' = swept
            /\ IF isFresh(cached, now)
               THEN /\ inflight' = inflight
                    /\ last' = [ev |-> "return", key |-> key, outcome |-> "hit",
                                value |-> cached.data, req |-> req,
                                swept |-> sweeps]
               ELSE /\ Len(inflight) < cfg.socks
                    /\ inflight' = Append(inflight, req)
                    /\ last' = [ev |-> "await", key |-> key, outcome |-> "none",
                                value |-> 0, req |-> req, swept |-> sweeps]
    /\ UNCHANGED <<now, cl, socks, timers, orch, hist, cfg>>

\* One of the calls of a run, which are counted.
GetCachedData(key, ttl) ==
    /\ calls < cfg.calls /\ calls' = calls + 1
    /\ getCachedData(key, ttl)

\* fetchFn() resolves with data: the entry is stored and data returned.
FetchResolves(k, data) ==
    /\ cfg.sys = "cache" /\ k \in 1 .. Len(inflight)
    /\ LET req == inflight[k] IN
         /\ cache' = [cache EXCEPT ![req.key] =
                         [present |-> TRUE, data |-> data, timestamp |-> now,
                          ttl |-> req.ttl]]
         /\ hist' = [hist EXCEPT ![req.key] = [present |-> TRUE, data |-> data]]
         /\ last' = [ev |-> "return", key |-> req.key, outcome |-> "fetched",
                     value |-> data, req |-> req, swept |-> FALSE]
    /\ inflight' = RemoveAt(inflight, k)
    /\ UNCHANGED <<now, cl, socks, timers, orch, calls, cfg>>

\* The catch block returning a value where it should rethrow.
FetchRejectsSwallows(k) ==
    /\ cfg.sys = "cache" /\ k \in 1 .. Len(inflight)
    /\ LET req == inflight[k] IN
         last' = [ev |-> "return", key |-> req.key, outcome |-> "stale",
                  value |-> req.cached.data, req |-> req, swept |-> FALSE]
    /\ inflight' = RemoveAt(inflight, k)
    /\ UNCHANGED <<now, cl, socks, timers, orch, cache, hist, calls, cfg>>

\* fetchFn() rejects: the entry found before the fetch is returned, or the
\* error is thrown.
FetchRejects(k) ==
    /\ cfg.sys = "cache" /\ k \in 1 .. Len(inflight)
    /\ LET req == inflight[k] IN
         last' = IF req.cached.present
                 THEN [ev |-> "return", key |-> req.key, outcome |-> "stale",
                       value |-> req.cached.data, req |-> req, swept |-> FALSE]
                 ELSE [ev |-> "throw", key |-> req.key, outcome |-> "error",
                       value |-> 0, req |-> req, swept |-> FALSE]
    /\ inflight' = RemoveAt(inflight, k)
    /\ UNCHANGED <<now, cl, socks, timers, orch, cache, hist, calls, cfg>>

\* GET: the endpoint whose case of the switch calls getCachedData with the
\* key.
EndpointOf(key) ==
    IF key = "bull-market-indicators" THEN "indicators" ELSE "sentiment"

\* cache.has(name)
cacheHas(m, name) == name \in DOMAIN m /\ m[name].present

\* GET: the cached field of the response,
\* cache.has(endpoint === 'summary' ? 'bull-market-indicators' : endpoint)
responseCached(m, endpoint) ==
    cacheHas(m, IF endpoint = "summary" THEN "bull-market-indicators"
                ELSE endpoint)

\* Time passes.
CacheTick ==
    /\ cfg.sys = "cache"
    /\ now < StartTime + cfg.horizon
    /\ now' = now + cfg.quantum
    /\ last' = [ev |-> "tick", key |-> "", outcome |-> "none", value |-> 0,
                req |-> [key |-> "", ttl |-> 0, cached |-> NoEntry,
                         stored |-> [present |-> FALSE, data |-> 0]],
               swept |-> FALSE]
    /\ UNCHANGED <<cl, socks, timers, orch, cache, inflight, hist, calls, cfg>>

NextCache ==
    \/ \E key \in CacheKeys : GetCachedData(key, TtlOf(key))
    \/ \E k \in 1 .. Len(inflight), data \in cfg.prices : FetchResolves(k, data)
    \/ \E k \in 1 .. Len(inflight) : FetchRejects(k)
    \/ CacheTick

\* The route module just loaded: an empty Map.  hist keeps, per key, the
\* value stored last (history: sweeps do not erase it).
HorizonCache == 800000
QuantumCache == 200000
CallsCache == 4
InflightCache == 2
RandCache == 2

InitCache ==
    /\ now = StartTime
    /\ cl = <<>>
    /\ socks = <<>>
    /\ timers = <<>>
    /\ orch = NoOrch
    /\ cache = [k \in CacheKeys |-> NoEntry]
    /\ inflight = <<>>
    /\ hist = [k \in CacheKeys |-> [present |-> FALSE, data |-> 0]]
    /\ calls = 0
    /\ last = [ev |-> "init", key |-> "", outcome |-> "none", value |-> 0,
               req |-> [key |-> "", ttl |-> 0, cached |-> NoEntry,
                        stored |-> [present |-> FALSE, data |-> 0]],
               swept |-> FALSE]
    /\ cfg = [sys |-> "cache", horizon |-> HorizonCache,
              quantum |-> QuantumCache, calls |-> CallsCache,
              socks |-> InflightCache, rand |-> RandCache, prices |-> {1, 2}]

SpecCache == InitCache /\ [][NextCache]_vars

\* The route serving requests for as long as the process lives: calls are
\* not counted.  A pending fetchFn() settles; Math.random() falls below the
\* threshold of the sweep again and again.
Request(key) == getCachedData(key, TtlOf(key)) /\ UNCHANGED calls

SweepingRequest == \E key \in CacheKeys : Request(key) /\ last'.swept

FetchSettles ==
    \E k \in 1 .. Len(inflight) :
        \/ \E data \in cfg.prices : FetchResolves(k, data)
        \/ FetchRejects(k)

NextServing ==
    \/ \E key \in CacheKeys : Request(key)
    \/ FetchSettles
    \/ CacheTick

SpecServing ==
    /\ InitCache
    /\ [][NextServing]_vars
    /\ WF_vars(FetchSettles)
    /\ SF_vars(SweepingRequest)

-----------------------------------------------------------------------------
(* AIAnalysisPanel.handleAnalyzeClick, src/unnamed/part_001, with          *)
(* ClaudeAI.analyzeMarket and parseAIResponse, src/unnamed/part_006.  orch *)
(* holds the panel's state, inflight the invocations of the handler that   *)
(* are suspended at an await.                                              *)

\* What an awaited call settles with: its kind and, for a response of
\* POST /api/ai/analyze, the status, the text of body.error (or of the error
\* fetch rejects with) and the provider the body names.
Outcome(kind, status, text, provider, isFree) ==
    [kind |-> kind, status |-> status, text |-> text, provider |-> provider,
     isFree |-> isFree]

Plain(kind) == Outcome(kind, 0, "", "undefined", FALSE)

\* How GET /api/ai/check settles inside ClaudeAI.isAvailable().
CheckOutcomes ==
    {Plain(kind) : kind \in {"available", "unavailable", "notOk", "network"}}

\* body.provider of an answer: the display name and isFree of a provider, or
\* no provider field.
Providers ==
    {<<"Groq (FREE & Fast)", TRUE>>, <<"Claude (Anthropic)", FALSE>>,
     <<"undefined", FALSE>>}

\* response.statusText
statusText(status) ==
    CASE status = 401 -> "Unauthorized"
      [] status = 429 -> "Too Many Requests"
      [] status = 503 -> "Service Unavailable"
      [] OTHER -> "Internal Server Error"

Statuses == {401, 429, 500, 503}

\* body.error of a response that is not ok: "" when the body has none,
\* 'Unknown error' when the body is not JSON.
ErrorTexts ==
    {"", "Unknown error", "Invalid API key", "Too Many Requests",
     "Groq API Error: Rate limit reached", "Ollama API Error: fetch failed"}

\* The message of the TypeError fetch rejects with, which the browser words.
NetworkTexts == {"Failed to fetch", "Load failed"}

\* The message of the SyntaxError response.json() rejects with when the body
\* is not JSON: the engine words it, and newer engines quote the body.
JsonErrorTexts ==
    {"Unexpected token < in JSON at position 0",
     "Unexpected token '<', \"<html>\" is not valid JSON",
     "Unexpected end of JSON input",
     "Unexpected token 'R', \"Rate limit reached\" is not valid JSON"}

\* The message of the TypeError response.toLowerCase() throws when response
\* is undefined, which the engine words.
TypeErrorTexts ==
    {"Cannot read properties of undefined (reading 'toLowerCase')",
     "response is undefined"}

\* How POST /api/ai/analyze settles: an answer that is ok, with a well-formed
\* response text, a text with no JSON object in it, a JSON object that does
\* not parse, a body without the response field or a body that is not JSON;
\* a response that is not ok; a network error.
AnalyzeOutcomes ==
    {Outcome(kind, 200, "", pr[1], pr[2]) :
        kind \in {"wellFormed", "noJson", "badJson"}, pr \in Providers}
      \cup {Outcome("noField", 200, text, pr[1], pr[2]) :
              text \in TypeErrorTexts, pr \in Providers}
      \cup {Outcome("notJsonBody", 200, text, "undefined", FALSE) :
              text \in JsonErrorTexts}
      \cup {Outcome("notOk", status, text, "undefined", FALSE) :
              status \in Statuses, text \in ErrorTexts}
      \cup {Outcome("network", 0, text, "undefined", FALSE) :
              text \in NetworkTexts}

\* The outcomes in which the AI dependency failed.
Failures ==
    {o \in CheckOutcomes \cup AnalyzeOutcomes :
        o.kind \notin {"available", "wellFormed"}}

\* An AIAnalysisResult: what its fields other than aiSource say (a parsed
\* answer, the fallback of a parse error, the mock analysis) and aiSource.
Result(content, aiSource) == [content |-> content, aiSource |-> aiSource]

NoResult == Result("null", "null")

\* setAiResult(result); hadPreviousResultRef.current = true; finally
resultShown(p, result) ==
    [p EXCEPT !.aiResult = result, !.hadPreviousResultRef = TRUE,
              !.isAILoading = FALSE]

\* catch: setAiError(error.message); finally
errorShown(p, message) == [p EXCEPT !.aiError = message, !.isAILoading = FALSE]

\* String.prototype.includes
includes(s, sub) ==
    \E i \in 1 .. (Len(s) - Len(sub) + 1) :
        SubSeq(s, i, i + Len(sub) - 1) = sub

\* parseAIResponse(response, currentPrice) on a response text
parseAIResponse(kind) ==
    IF kind = "wellFormed" THEN Result("parsed", "Real AI")
    ELSE Result("fallback", "Real AI (Parse Error)")

\* The try block of analyzeMarket: the message of the error thrown in it, ""
\* when it returns.  A body without the response field makes parseAIResponse
\* throw from its own catch block (response.toLowerCase()).
thrown(outcome) ==
    CASE outcome.kind \in {"network", "notJsonBody", "noField"} -> outcome.text
      [] outcome.kind = "notOk" ->
           "API Error: " \o (IF outcome.text # "" THEN outcome.text
                             ELSE statusText(outcome.status))
      [] OTHER -> ""

\* analyzeMarket: the result it returns, the one of parseAIResponse with
\* aiSource replaced by the provider of the answer
analyzed(outcome) ==
    [parseAIResponse(outcome.kind) EXCEPT
        !.aiSource =
            (IF outcome.provider = "undefined" THEN "AI"
             ELSE outcome.provider)
              \o (IF outcome.isFree THEN " (FREE)" ELSE " (PAID)")]

\* analyzeMarket: the message of the Error thrown from its catch block
errorMessage(message) ==
    IF includes(message, "authentication") \/ includes(message, "auth")
       \/ includes(message, "401")
    THEN "Authentication failed. Please check your API key configuration."
    ELSE IF includes(message, "quota") \/ includes(message, "limit")
            \/ includes(message, "429")
    THEN "API quota exceeded. Please try again later."
    ELSE IF includes(message, "network") \/ includes(message, "fetch")
    THEN "Network error. Please check your connection."
    ELSE "AI analysis error: " \o message

\* handleAnalyzeClick from the data check on: the candles of the selected
\* timeframe are at hand.
analyzeWith(p, q, inv, candles) ==
    IF candles = 0
    THEN [orch |-> errorShown(p, "No data available for analysis"),
          inflight |-> q]
    ELSE IF inv.useMock \/ inv.providerStatus # "available"
    THEN [orch |-> p, inflight |-> Append(q, [inv EXCEPT !.at = "mockAnalyze"])]
    ELSE [orch |-> p, inflight |-> Append(q, [inv EXCEPT !.at = "isAvailable"])]

\* handleAnalyzeClick(useMock), up to its first await
handleAnalyzeClick(p, q, useMock) ==
    LET p1 == [p EXCEPT !.isAILoading = TRUE, !.aiError = "null"]
        inv == [at |-> "fetchKlines", useMock |-> useMock,
                providerStatus |-> p.providerStatus]
    IN IF ~p.sameTimeframe
       THEN [orch |-> p1, inflight |-> Append(q, inv)]
       ELSE analyzeWith(p1, q, inv, p.candles)

\* An invocation suspended at an await is resumed with the outcome of what
\* it awaited.  A rejection that is not an Error (text "") is shown as
\* 'AI analysis failed'.
resumed(p, q, inv, outcome) ==
    CASE inv.at = "fetchKlines" ->
           IF outcome.kind = "rejected"
           THEN [orch |-> errorShown(p, IF outcome.text # "" THEN outcome.text
                                        ELSE "AI analysis failed"),
                 inflight |-> q]
           ELSE analyzeWith(p, q, inv,
                            IF outcome.kind = "empty" THEN 0 ELSE 1)
      [] inv.at = "mockAnalyze" ->
           [orch |-> resultShown(p, Result("mock", "Mock AI")),
            inflight |-> q]
      [] inv.at = "isAvailable" ->
           IF outcome.kind = "available"
           THEN [orch |-> p,
                 inflight |-> Append(q, [inv EXCEPT !.at = "analyze"])]
           ELSE [orch |-> errorShown(p, "AI backend not available. Please configure at least one AI provider."),
                 inflight |-> q]
      [] OTHER ->
           IF thrown(outcome) = ""
           THEN [orch |-> resultShown(p, analyzed(outcome)),
                 inflight |-> q]
           ELSE [orch |-> errorShown(p, errorMessage(thrown(outcome))),
                 inflight |-> q]

\* What an await can be resumed with.
OutcomesAt(at) ==
    CASE at = "fetchKlines" ->
           {Plain(kind) : kind \in {"candles", "empty"}}
             \cup {Outcome("rejected", 0, r.message, "undefined", FALSE) :
                     r \in Rejections}
      [] at = "mockAnalyze" -> {Plain("resolved")}
      [] at = "isAvailable" -> CheckOutcomes
      [] OTHER -> AnalyzeOutcomes

CallsPanel == 3
CandlesPanel == 1

\* The user presses Analyze (useMock false) or the mock button; the buttons
\* are disabled while isAILoading.
AnalyzeClick(useMock) ==
    /\ cfg.sys = "panel" /\ calls < cfg.calls /\ calls' = calls + 1
    /\ ~orch.isAILoading
    /\ LET r == handleAnalyzeClick(orch, inflight, useMock) IN
       /\ orch' = r.orch
       /\ inflight' = r.inflight
       /\ last' = [ev |-> "click", outcome |-> Plain("none"), at |-> "click",
                   done |-> Len(r.inflight) = Len(inflight)]
    /\ UNCHANGED <<now, cl, socks, timers, cache, hist, cfg>>

\* What invocation k awaits settles.
AwaitSettles(k, outcome) ==
    /\ cfg.sys = "panel"
    /\ k \in 1 .. Len(inflight)
    /\ outcome \in OutcomesAt(inflight[k].at)
    /\ LET r == resumed(orch, RemoveAt(inflight, k), inflight[k], outcome) IN
       /\ orch' = r.orch
       /\ inflight' = r.inflight
       /\ last' = [ev |-> "settled", outcome |-> outcome,
                   at |-> inflight[k].at,
                   done |-> Len(r.inflight) < Len(inflight)]
    /\ UNCHANGED <<now, cl, socks, timers, cache, hist, calls, cfg>>

\* handleClearResults()
handleClearResults(p) ==
    [p EXCEPT !.aiResult = NoResult, !.aiError = "null",
              !.hadPreviousResultRef = FALSE]

\* The user presses Clear: the button is rendered when a result or an error
\* is shown, and disabled while isAILoading.
ClearResults ==
    /\ cfg.sys = "panel" /\ calls < cfg.calls /\ calls' = calls + 1
    /\ ~orch.isAILoading
    /\ orch.aiResult # NoResult \/ orch.aiError # "null"
    /\ orch' = handleClearResults(orch)
    /\ last' = [ev |-> "clear", outcome |-> Plain("none"), at |-> "clear",
                done |-> TRUE]
    /\ UNCHANGED <<now, cl, socks, timers, cache, hist, inflight, cfg>>

\* The effect on [currentSymbol]: the parent passes another symbol.
SymbolChanged ==
    /\ cfg.sys = "panel" /\ calls < cfg.calls /\ calls' = calls + 1
    /\ orch' = [orch EXCEPT !.aiResult = NoResult, !.aiError = "null"]
    /\ last' = [ev |-> "symbol", outcome |-> Plain("none"), at |-> "symbol",
                done |-> TRUE]
    /\ UNCHANGED <<now, cl, socks, timers, cache, hist, inflight, cfg>>

\* The user picks the timeframe to analyze (the current one of the chart or
\* another); the select is disabled while isAILoading.
SelectTimeframe(same) ==
    /\ cfg.sys = "panel" /\ calls < cfg.calls /\ calls' = calls + 1
    /\ ~orch.isAILoading
    /\ orch' = [orch EXCEPT !.sameTimeframe = same]
    /\ last' = [ev |-> "timeframe", outcome |-> Plain("none"),
                at |-> "timeframe", done |-> TRUE]
    /\ UNCHANGED <<now, cl, socks, timers, cache, hist, inflight, cfg>>

\* checkProviders(), called on mount, after its await: GET /api/ai/check
\* answers with available true or false, answers not ok (nothing is set), or
\* fetch rejects (the status is set to unavailable).
checkProviders(p, outcome) ==
    [p EXCEPT !.checking = FALSE,
              !.providerStatus =
                  CASE outcome.kind = "available" -> "available"
                    [] outcome.kind = "notOk" -> @
                    [] OTHER -> "unavailable"]

ProvidersChecked(outcome) ==
    /\ cfg.sys = "panel"
    /\ orch.checking
    /\ outcome \in CheckOutcomes
    /\ orch' = checkProviders(orch, outcome)
    /\ last' = [ev |-> "checked", outcome |-> outcome, at |-> "checkProviders",
                done |-> TRUE]
    /\ UNCHANGED <<now, cl, socks, timers, cache, hist, inflight, calls, cfg>>

\* The parent renders the panel with other props: the candles of the chart
\* and its timeframe, which is or is not the selected one.
PropsChanged(n, same) ==
    /\ cfg.sys = "panel" /\ calls < cfg.calls /\ calls' = calls + 1
    /\ orch' = [orch EXCEPT !.candles = n, !.sameTimeframe = same]
    /\ orch' # orch
    /\ last' = [ev |-> "props", outcome |-> Plain("none"), at |-> "props",
                done |-> TRUE]
    /\ UNCHANGED <<now, cl, socks, timers, cache, hist, inflight, cfg>>

NextPanel ==
    \/ \E useMock \in BOOLEAN : AnalyzeClick(useMock)
    \/ \E k \in 1 .. Len(inflight) :
         \E outcome \in OutcomesAt(inflight[k].at) : AwaitSettles(k, outcome)
    \/ ClearResults
    \/ SymbolChanged
    \/ \E same \in BOOLEAN : SelectTimeframe(same)
    \/ \E n \in 0 .. CandlesPanel, same \in BOOLEAN : PropsChanged(n, same)
    \/ \E outcome \in CheckOutcomes : ProvidersChecked(outcome)

\* The panel just mounted: nothing shown, checkProviders() awaiting its
\* request; the props give the chart's candles, and selectedTimeframe starts
\* as the chart's timeframe.
InitPanel ==
    /\ now = StartTime
    /\ cl = <<>>
    /\ socks = <<>>
    /\ timers = <<>>
    /\ cache = <<>>
    /\ hist = <<>>
    /\ inflight = <<>>
    /\ calls = 0
    /\ \E n \in 0 .. CandlesPanel :
         orch = [aiResult |-> NoResult, aiError |-> "null",
                 isAILoading |-> FALSE, hadPreviousResultRef |-> FALSE,
                 providerStatus |-> "null", checking |-> TRUE,
                 sameTimeframe |-> TRUE, candles |-> n]
    /\ last = [ev |-> "init", outcome |-> Plain("none"), at |-> "none",
               done |-> FALSE]
    /\ cfg = [sys |-> "panel", calls |-> CallsPanel]

SpecPanel == InitPanel /\ [][NextPanel]_vars

-----------------------------------------------------------------------------
(* The candles the hook exposes, src/hooks/useMarketData.ts: candleData as *)
(* the sequence of candles it is, written by fetchData and changeSymbol,   *)
(* with every operation that writes candleData or the price fetchData      *)
(* patches it with.  orch holds candleData, currentPrice (0 is null) and   *)
(* the three in-progress flags; inflight holds the operations suspended at *)
(* an await, each with the currentPrice of the render whose callbacks it   *)
(* runs (fetchData reads currentPrice from that closure).                  *)

TimesCandles == 2
ClosesCandles == 2
LenCandles == 2
CallsCandles == 2

\* An observation: a candle time and a close price.
Observations ==
    [time : 1 .. TimesCandles, close : 100 .. (99 + ClosesCandles)]

Ascending(seq) ==
    \A j \in 1 .. (Len(seq) - 1) : seq[j].time < seq[j + 1].time

\* What binanceFetcher.fetchKlines resolves with and what generateMockData
\* returns; neither module is in the repository's sources.  cfg.ascending
\* says whether they deliver candles in ascending order of time, one per
\* time, or any sequence.
Snapshots ==
    {seq \in UNION {[1 .. n -> Observations] : n \in 0 .. LenCandles} :
        cfg.ascending => Ascending(seq)}

\* The last price of a ticker.
PricesCandles == 100 .. (99 + ClosesCandles)

\* An operation suspended at an await: the 500 ms wait of changeSymbol
\* ("wait"), fetch24hrTicker ("ticker") or fetchKlines ("klines"), for the
\* operation `by`, with the currentPrice its callbacks closed over.
Suspended(kind, by, price) == [kind |-> kind, by |-> by, price |-> price]

\* fetchData after the await: the latest candle takes the live price when
\* that is within 5% of its close, then setCandleData(candles); the current
\* price is set from the latest candle if it was null.
candlesFetched(p, req, candles) ==
    LET n == Len(candles)
        live == req.price
        near == n > 0 /\ live # 0
                  /\ 100 * (IF live > candles[n].close
                            THEN live - candles[n].close
                            ELSE candles[n].close - live)
                       < 5 * candles[n].close
        patched == IF near THEN [candles EXCEPT ![n].close = live]
                   ELSE candles
    IN [p EXCEPT !.candleData = patched,
                 !.currentPrice = IF n > 0 /\ live = 0
                                  THEN patched[n].close ELSE @]

\* The finally block of the operation that awaited fetchData.
candlesDone(p, by) ==
    CASE by = "refresh" -> [p EXCEPT !.isRefreshingRef = FALSE]
      [] by = "changeTimeframe" -> [p EXCEPT !.isChangingTimeframeRef = FALSE]
      [] by = "changeSymbol" -> [p EXCEPT !.isChangingSymbolRef = FALSE]
      [] OTHER -> p

\* stableHandleKlineUpdate(data): currentCandle is built from data.k and
\* only its close is used, by setCurrentPrice.
klineReceived(p, obs) == [p EXCEPT !.currentPrice = obs.close]

\* refreshData(), changeTimeframe(another timeframe), changeSymbol(another
\* symbol) or fetchPriceData(true) of the monitoring interval (two minutes
\* without a price update while connected) is called, up to its first await.
\* The callbacks are those of the current render, so the fetchData they
\* will call reads the currentPrice of this moment; changeSymbol resets the
\* candles and the price first.
FetchCandles(by) ==
    /\ cfg.sys = "candles" /\ calls < cfg.calls /\ calls' = calls + 1
    /\ CASE by = "refresh" ->
              /\ ~orch.isRefreshingRef
              /\ orch' = [orch EXCEPT !.isRefreshingRef = TRUE]
              /\ inflight' = Append(inflight,
                     Suspended("ticker", by, orch.currentPrice))
         [] by = "changeTimeframe" ->
              /\ ~orch.isChangingTimeframeRef
              /\ orch' = [orch EXCEPT !.isChangingTimeframeRef = TRUE]
              /\ inflight' = Append(inflight,
                     Suspended("klines", by, orch.currentPrice))
         [] by = "changeSymbol" ->
              /\ ~orch.isChangingSymbolRef
              /\ orch' = [orch EXCEPT !.isChangingSymbolRef = TRUE,
                                      !.candleData = <<>>,
                                      !.currentPrice = 0]
              /\ inflight' = Append(inflight,
                     Suspended("wait", by, orch.currentPrice))
         [] OTHER ->
              /\ orch' = orch
              /\ inflight' = Append(inflight,
                     Suspended("ticker", by, orch.currentPrice))
    /\ last' = [ev |-> by, obs |-> <<>>]
    /\ UNCHANGED <<now, cl, socks, timers, cache, hist, cfg>>

\* The 500 ms wait of changeSymbol ends: fetchPriceData(true) is called.
WaitEnds(k) ==
    /\ cfg.sys = "candles"
    /\ k \in 1 .. Len(inflight) /\ inflight[k].kind = "wait"
    /\ inflight' = Append(RemoveAt(inflight, k),
                          [inflight[k] EXCEPT !.kind = "ticker"])
    /\ last' = [ev |-> "wait", obs |-> <<>>]
    /\ UNCHANGED <<now, cl, socks, timers, orch, cache, hist, calls, cfg>>

\* fetch24hrTicker settles: the price of the ticker is stored, or the
\* fallback price; initializeData, refreshData and changeSymbol go on to
\* fetchData.
TickerSettles(k, ok, price) ==
    /\ cfg.sys = "candles"
    /\ k \in 1 .. Len(inflight) /\ inflight[k].kind = "ticker"
    /\ orch' = [orch EXCEPT !.currentPrice =
                                IF ok THEN price ELSE FallbackPrice]
    /\ inflight' = IF inflight[k].by = "monitoring"
                   THEN RemoveAt(inflight, k)
                   ELSE Append(RemoveAt(inflight, k),
                               [inflight[k] EXCEPT !.kind = "klines"])
    /\ last' = [ev |-> "ticker", obs |-> <<>>]
    /\ UNCHANGED <<now, cl, socks, timers, cache, hist, calls, cfg>>

\* fetchKlines resolves with candles, or rejects and the mock candles are
\* stored.
KlinesResolve(k, candles, ok) ==
    /\ cfg.sys = "candles"
    /\ k \in 1 .. Len(inflight) /\ inflight[k].kind = "klines"
    /\ orch' = candlesDone(
                   IF ok THEN candlesFetched(orch, inflight[k], candles)
                   ELSE [orch EXCEPT !.candleData = candles],
                   inflight[k].by)
    /\ inflight' = RemoveAt(inflight, k)
    /\ last' = [ev |-> IF ok THEN "klines" ELSE "mock", obs |-> candles]
    /\ UNCHANGED <<now, cl, socks, timers, cache, hist, calls, cfg>>

\* The push channel delivers a kline.
KlinePushed(obs) ==
    /\ cfg.sys = "candles"
    /\ orch' = klineReceived(orch, obs)
    /\ last' = [ev |-> "kline", obs |-> <<obs>>]
    /\ UNCHANGED <<now, cl, socks, timers, cache, inflight, hist, calls, cfg>>

\* The push channel delivers a ticker: stableHandleTickerUpdate stores its
\* price.
TickerPushed(price) ==
    /\ cfg.sys = "candles"
    /\ orch' = [orch EXCEPT !.currentPrice = price]
    /\ last' = [ev |-> "tickerPushed", obs |-> <<>>]
    /\ UNCHANGED <<now, cl, socks, timers, cache, inflight, hist, calls, cfg>>

NextCandles ==
    \/ \E by \in {"refresh", "changeTimeframe", "changeSymbol", "monitoring"} :
         FetchCandles(by)
    \/ \E k \in 1 .. Len(inflight) : WaitEnds(k)
    \/ \E k \in 1 .. Len(inflight), ok \in BOOLEAN, price \in PricesCandles :
         TickerSettles(k, ok, price)
    \/ \E k \in 1 .. Len(inflight), candles \in Snapshots, ok \in BOOLEAN :
         KlinesResolve(k, candles, ok)
    \/ \E obs \in Observations : KlinePushed(obs)
    \/ \E price \in PricesCandles : TickerPushed(price)

\* The hook just mounted: initializeData() awaits fetchPriceData(true), with
\* the callbacks of the first render (currentPrice null).
InitCandles ==
    /\ now = StartTime
    /\ cl = <<>>
    /\ socks = <<>>
    /\ timers = <<>>
    /\ cache = <<>>
    /\ hist = <<>>
    /\ inflight = <<Suspended("ticker", "init", 0)>>
    /\ calls = 0
    /\ orch = [candleData |-> <<>>, currentPrice |-> 0,
               isRefreshingRef |-> FALSE, isChangingTimeframeRef |-> FALSE,
               isChangingSymbolRef |-> FALSE]
    /\ last = [ev |-> "init", obs |-> <<>>]
    /\ \E asc \in BOOLEAN :
         cfg = [sys |-> "candles", calls |-> CallsCandles, ascending |-> asc]

SpecCandles == InitCandles /\ [][NextCandles]_vars

-----------------------------------------------------------------------------
(* AIProviderFactory, src/lib/ai-providers/ollama.ts.  orch holds the      *)
(* environment (which API keys are set, the value of AI_PROVIDER) and the  *)
(* provider the factory returned.                                          *)

\* The providers that need an API key; Ollama needs none.
KeyedProviders == {"claude", "openai", "groq", "huggingface"}
\* AIProviderType
ProviderTypes == KeyedProviders \cup {"ollama"}

\* AI_PROVIDER: not set, a provider type, or some other text.
Preferences == {""} \cup ProviderTypes \cup {"mistral"}

\* const priorityOrder in getDefaultProvider()
priorityOrder == <<"groq", "ollama", "huggingface", "claude", "openai">>
\* const types in getAllProviders()
allTypes == <<"claude", "openai", "groq", "huggingface", "ollama">>

\* provider.isAvailable(): OllamaProvider returns true; the others return
\* whether their API key is set.
isAvailable(type, keys) == type = "ollama" \/ type \in keys

\* The first element of the order that is available; "" if none is.
FirstAvailable(order, keys) ==
    LET avail == {k \in 1 .. Len(order) : isAvailable(order[k], keys)}
    IN IF avail = {} THEN "" ELSE order[Min(avail)]

getDefaultProvider(keys) ==
    IF FirstAvailable(priorityOrder, keys) # ""
    THEN FirstAvailable(priorityOrder, keys)
    ELSE IF FirstAvailable(allTypes, keys) # ""
    THEN FirstAvailable(allTypes, keys)
    ELSE "groq"

getPreferredProvider(keys, preferred) ==
    IF preferred # "" /\ preferred \in ProviderTypes
       /\ isAvailable(preferred, keys)
    THEN preferred
    ELSE getDefaultProvider(keys)

\* The server selects a provider.
SelectProvider ==
    /\ cfg.sys = "factory"
    /\ orch.selected = "none"
    /\ orch' = [orch EXCEPT
                   !.selected = getPreferredProvider(orch.keys, orch.preferred)]
    /\ last' = [ev |-> "getPreferredProvider"]
    /\ UNCHANGED <<now, cl, socks, timers, cache, inflight, hist, calls, cfg>>

\* The environment is changed and the server restarted.
Reconfigure ==
    /\ cfg.sys = "factory"
    /\ orch.selected # "none"
    /\ \E keys \in SUBSET KeyedProviders, preferred \in Preferences :
         orch' = [keys |-> keys, preferred |-> preferred, selected |-> "none"]
    /\ last' = [ev |-> "restart"]
    /\ UNCHANGED <<now, cl, socks, timers, cache, inflight, hist, calls, cfg>>

NextFactory == SelectProvider \/ Reconfigure

InitFactory ==
    /\ now = StartTime
    /\ cl = <<>>
    /\ socks = <<>>
    /\ timers = <<>>
    /\ cache = <<>>
    /\ hist = <<>>
    /\ inflight = <<>>
    /\ calls = 0
    /\ \E keys \in SUBSET KeyedProviders, preferred \in Preferences :
         orch = [keys |-> keys, preferred |-> preferred, selected |-> "none"]
    /\ last = [ev |-> "init"]
    /\ cfg = [sys |-> "factory"]

SpecFactory == InitFactory /\ [][NextFactory]_vars

-----------------------------------------------------------------------------
(* useSymbolSearch, src/hooks/useSymbolSearch.ts.  orch holds the state and *)
(* the refs of the hook, inflight the search requests suspended at fetch.  *)
(* A list of symbols is named by where it came from: "empty" ([]),         *)
(* "popular" (the list the route returned on mount), "fallback" (the       *)
(* hard-coded list), or the cache key of the query it answers.             *)

SearchDebounce == 300
SearchCacheTtl == 300000

Queries == {"", "a", "a ", "b"}

\* query.trim()
trim(q) == IF q = "a " THEN "a" ELSE q

\* the key of searchCacheRef: trimmedQuery.toLowerCase()
SearchKey(q) == toLowerCase(trim(q))

NoPending == [armed |-> FALSE, q |-> "", popular |-> "empty", at |-> 0, id |-> 0]

\* performSearch of the call `id` of searchSymbols(query), created in a
\* render whose popularSymbols was `popular`, up to its await.
performSearch(o, reqs, query, popular, t, id) ==
    LET trimmedQuery == trim(query)
        cacheKey == toLowerCase(trimmedQuery)
        cached == o.searchCache[cacheKey]
    IN IF cached.present /\ t - cached.timestamp < SearchCacheTtl
       THEN [orch |-> [o EXCEPT !.searchResults = cacheKey,
                                !.isSearching = FALSE],
             inflight |-> reqs]
       ELSE IF trimmedQuery = ""
       THEN [orch |-> [o EXCEPT !.searchResults = popular,
                                !.isSearching = FALSE],
             inflight |-> reqs]
       ELSE [orch |-> [o EXCEPT !.isSearching = TRUE,
                                !.searchError = "null",
                                !.abortControllerRef = id],
             inflight |-> Append(reqs, [id |-> id, key |-> cacheKey,
                                        popular |-> popular])]

\* abortControllerRef.current.abort(): the request of that controller
\* rejects with AbortError.
Aborted(reqs, ref) == {k \in 1 .. Len(reqs) : reqs[k].id = ref /\ ref # 0}
NotAborted(reqs, ref) ==
    LET Keep(r) == ~(r.id = ref /\ ref # 0) IN SelectSeq(reqs, Keep)

\* performSearch after the rejection with AbortError, run when the task
\* that called abort() has ended: the catch block returns, the finally
\* block runs.
afterAbort(o, wasAborted) ==
    IF wasAborted
    THEN [o EXCEPT !.isSearching = FALSE, !.abortControllerRef = 0]
    ELSE o

\* searchSymbols(query, immediate), the call number id
searchSymbols(o, reqs, query, immediate, t, id) ==
    LET o1 == [o EXCEPT !.pending = NoPending]
        wasAborted == Aborted(reqs, o.abortControllerRef) # {}
        reqs1 == NotAborted(reqs, o.abortControllerRef)
        r == IF immediate
             THEN performSearch(o1, reqs1, query, o.popularSymbols, t, id)
             ELSE [orch |-> [o1 EXCEPT !.pending =
                                [armed |-> TRUE, q |-> query,
                                 popular |-> o.popularSymbols,
                                 at |-> t + SearchDebounce, id |-> id]],
                   inflight |-> reqs1]
    IN [orch |-> [afterAbort(r.orch, wasAborted) EXCEPT
                     !.lastKey = SearchKey(query), !.lastId = id],
        inflight |-> r.inflight]

\* clearSearch() of a render whose popularSymbols was `popular`
clearSearch(o, reqs, popular) ==
    LET wasAborted == Aborted(reqs, o.abortControllerRef) # {}
        o1 == [o EXCEPT !.pending = NoPending,
                        !.abortControllerRef = 0,
                        !.searchResults = popular,
                        !.isSearching = FALSE,
                        !.searchError = "null"]
    IN [orch |-> [afterAbort(o1, wasAborted) EXCEPT
                     !.lastKey = "", !.lastId = 0],
        inflight |-> NotAborted(reqs, o.abortControllerRef)]

\* performSearch after its awaits: the response was ok and parsed, or the
\* request failed.
searchSettled(o, req, ok, t) ==
    LET o1 == IF ok
              THEN [o EXCEPT !.searchCache[req.key] =
                                 [present |-> TRUE, timestamp |-> t],
                             !.searchResults = req.key]
              ELSE [o EXCEPT !.searchError = "error",
                             !.searchResults = req.popular]
    IN [o1 EXCEPT !.isSearching = FALSE, !.abortControllerRef = 0]

\* loadPopularSymbols after its awaits
popularLoaded(o, ok) ==
    LET list == IF ok THEN "popular" ELSE "fallback"
    IN [o EXCEPT !.popularSymbols = list, !.searchResults = list,
                 !.popularLoading = FALSE]

SearchCall(query, immediate) ==
    /\ cfg.sys = "search" /\ calls < cfg.calls /\ calls' = calls + 1
    /\ ~(orch.pending.armed /\ orch.pending.at = now)
    /\ LET r == searchSymbols(orch, inflight, query, immediate, now,
                              calls + 1) IN
       /\ orch' = r.orch
       /\ inflight' = r.inflight
    /\ last' = [ev |-> "search", q |-> query]
    /\ UNCHANGED <<now, cl, socks, timers, cache, hist, cfg>>

\* clearSearchAndHide() of SymbolSelector calls clearSearch(): from Escape or
\* the choice of a symbol with the clearSearch of the current render, from
\* the click-outside listener, registered once on mount, with the
\* clearSearch of the first render, whose popularSymbols is [].
ClearCall(firstRender) ==
    /\ cfg.sys = "search" /\ calls < cfg.calls /\ calls' = calls + 1
    /\ ~(orch.pending.armed /\ orch.pending.at = now)
    /\ LET r == clearSearch(orch, inflight,
                            IF firstRender THEN "empty"
                            ELSE orch.popularSymbols) IN
       /\ orch' = r.orch
       /\ inflight' = r.inflight
    /\ last' = [ev |-> IF firstRender THEN "clickOutside" ELSE "clear",
                q |-> ""]
    /\ UNCHANGED <<now, cl, socks, timers, cache, hist, cfg>>

\* The debounce timer fires.
DebounceFires ==
    /\ cfg.sys = "search"
    /\ orch.pending.armed /\ orch.pending.at = now
    /\ LET t == orch.pending
           r == performSearch([orch EXCEPT !.pending.armed = FALSE],
                              inflight, t.q, t.popular, now, t.id) IN
       /\ orch' = r.orch
       /\ inflight' = r.inflight
    /\ last' = [ev |-> "debounce", q |-> orch.pending.q]
    /\ UNCHANGED <<now, cl, socks, timers, cache, hist, calls, cfg>>

SearchSettles(k, ok) ==
    /\ cfg.sys = "search" /\ k \in 1 .. Len(inflight)
    /\ ~(orch.pending.armed /\ orch.pending.at = now)
    /\ orch' = searchSettled(orch, inflight[k], ok, now)
    /\ inflight' = RemoveAt(inflight, k)
    /\ last' = [ev |-> IF ok THEN "resolved" ELSE "rejected",
                q |-> inflight[k].key]
    /\ UNCHANGED <<now, cl, socks, timers, cache, hist, calls, cfg>>

PopularSettles(ok) ==
    /\ cfg.sys = "search" /\ orch.popularLoading
    /\ ~(orch.pending.armed /\ orch.pending.at = now)
    /\ orch' = popularLoaded(orch, ok)
    /\ last' = [ev |-> "popular", q |-> ""]
    /\ UNCHANGED <<now, cl, socks, timers, cache, inflight, hist, calls, cfg>>

\* Time passes, up to the deadline of the debounce timer.
SearchTick ==
    /\ cfg.sys = "search"
    /\ ~(orch.pending.armed /\ orch.pending.at = now)
    /\ now < StartTime + cfg.horizon
    /\ now' = Min({now + cfg.quantum, StartTime + cfg.horizon}
                  \cup (IF orch.pending.armed THEN {orch.pending.at} ELSE {}))
    /\ last' = [ev |-> "tick", q |-> ""]
    /\ UNCHANGED <<cl, socks, timers, orch, cache, inflight, hist, calls, cfg>>

NextSearch ==
    \/ \E query \in Queries, immediate \in BOOLEAN :
         SearchCall(query, immediate)
    \/ \E firstRender \in BOOLEAN : ClearCall(firstRender)
    \/ DebounceFires
    \/ \E k \in 1 .. Len(inflight), ok \in BOOLEAN : SearchSettles(k, ok)
    \/ \E ok \in BOOLEAN : PopularSettles(ok)
    \/ SearchTick

HorizonSearch == 400000
QuantumSearch == 200000
CallsSearch == 3

\* The hook just mounted: loadPopularSymbols is suspended at its fetch.
InitSearch ==
    /\ now = StartTime
    /\ cl = <<>>
    /\ socks = <<>>
    /\ timers = <<>>
    /\ cache = <<>>
    /\ hist = <<>>
    /\ inflight = <<>>
    /\ calls = 0
    /\ orch = [searchResults |-> "empty", isSearching |-> FALSE,
               searchError |-> "null", popularSymbols |-> "empty",
               popularLoading |-> TRUE, pending |-> NoPending,
               abortControllerRef |-> 0,
               searchCache |-> [k \in {SearchKey(q) : q \in Queries} |->
                                  [present |-> FALSE, timestamp |-> 0]],
               lastKey |-> "", lastId |-> 0]
    /\ last = [ev |-> "init", q |-> ""]
    /\ cfg = [sys |-> "search", horizon |-> HorizonSearch,
              quantum |-> QuantumSearch, calls |-> CallsSearch]

SpecSearch == InitSearch /\ [][NextSearch]_vars

-----------------------------------------------------------------------------
(* Properties of the client.                                              *)

\* C1: after disconnect() has returned, the instance creates no socket on
\* its own: no socket is constructed while the last public call made on its
\* client is disconnect().
NoSocketAfterDisconnect == \A s \in Sockets : ~socks[s].inDisc

\* C2: after disconnect() has returned, no task (timer or socket event) of
\* the instance invokes one of its kline, ticker, connection-state or error
\* listeners.
NoListenerAfterDisconnect ==
    \A i \in Clients :
        (hist[i].disc /\ last.c = i /\ last.ev # "disconnect")
            => last.cbs = <<>>

\* C3: when the close that the silence check started has completed, a
\* reconnect is scheduled with attempt = 1 and a delay within
\* [baseDelay, 2 * baseDelay + maxJitter].
SilenceSchedulesReconnect ==
    last.ev = "closeSilence" =>
        /\ cl[last.c].reconnectAttempts = 1
        /\ \E k \in 1 .. Len(timers) :
              /\ timers[k].owner = last.c
              /\ timers[k].kind = "reconnect"
              /\ timers[k].delay >= BackoffBaseA
              /\ timers[k].delay <= 2 * BackoffBaseA + JitterA

\* C7: no socket is still connecting once the handshake timeout has passed
\* since its construction.
HandshakeTimeoutForcesClose ==
    \A s \in Sockets :
        socks[s].readyState = "CONNECTING"
            => now - socks[s].created <= HandshakeTimeout

\* C5: once the breaker is entered no socket is created before the cooldown
\* has elapsed, and the breaker is not left before it has.  (The code clears
\* the breaker flag early in disconnect(), changeStream() and onopen; exitBy
\* records which of them did.)
NoSocketDuringCooldown ==
    /\ \A s \in Sockets : ~socks[s].inCooldown
    /\ \A i \in Clients : ~hist[i].exitEarly

\* C5, the case where the breaker does block: connect() was called during
\* the cooldown and returned at the breaker guard; the breaker is still
\* active and no socket was constructed.
ConnectBlockedDuringCooldown ==
    /\ last.ev = "connect" /\ last.note = "cooldown"
    /\ cl[last.c].isCircuitBreakerActive
    /\ InCooldown(hist[last.c], now)
    /\ \A s \in Sockets : socks[s].readyState = "CLOSED"

\* C6: a connect() call made when the breaker is active and its cooldown has
\* elapsed clears the breaker, zeroes the error count and constructs a
\* socket.
ConnectAfterCooldownStarts ==
    (last.ev = "connect" /\ last.note = "elapsed") =>
        /\ ~cl[last.c].isCircuitBreakerActive
        /\ cl[last.c].errorCount = 0
        /\ cl[last.c].ws # 0
        /\ socks[cl[last.c].ws].readyState = "CONNECTING"
        /\ socks[cl[last.c].ws].created = now

\* C18: after the open event the client has reconnectAttempts 0, errorCount
\* 0, the breaker off, the primary endpoint selected and the time of the
\* open recorded; if that connection then fails, the attempt counter is
\* at most 1.
OpenResetsRetryState ==
    /\ [](last.ev = "open"
            => LET c == cl[last.c] IN
               /\ c.reconnectAttempts = 0
               /\ c.errorCount = 0
               /\ ~c.isCircuitBreakerActive
               /\ c.currentUrlIndex = 0
               /\ c.lastSuccessfulConnection = now)
    /\ [][(last.ev = "open" /\ last'.ev \in {"fail", "close", "closeSilence"}
             /\ last'.c = last.c)
            => cl'[last.c].reconnectAttempts <= 1]_vars

\* C18: a connection opened after an earlier attempt of the client had
\* failed (the timer its error event set is still pending).
OpenedAfterFailure ==
    /\ last.ev = "open"
    /\ \E k \in 1 .. Len(timers) :
          timers[k].owner = last.c /\ timers[k].kind = "postError"
    /\ cl[last.c].reconnectAttempts = 0

\* The last task reported that the attempt budget is used up.
BudgetExhausted ==
    \E k \in 1 .. Len(last.cbs) :
       /\ last.cbs[k].kind = "error"
       /\ last.cbs[k].arg = "Max reconnection attempts reached"

\* C19: the endpoint index is an index of wsUrls; handleReconnect moves to
\* the next endpoint, wrapping, from the second attempt on; and when the
\* attempt budget is used up the client has tried a socket on another
\* endpoint than the primary one.
EndpointFallback ==
    /\ [](\A i \in Clients : cl[i].currentUrlIndex \in 0 .. (WsUrlsB - 1))
    /\ [](BudgetExhausted
            => \E s \in Sockets : socks[s].owner = last.c /\ socks[s].url # 0)
    /\ [][\A i \in Clients :
            cl'[i].reconnectAttempts = cl[i].reconnectAttempts + 1
              => cl'[i].currentUrlIndex =
                    IF cl'[i].reconnectAttempts > 1
                    THEN (cl[i].currentUrlIndex + 1) % WsUrlsB
                    ELSE cl[i].currentUrlIndex]_vars

\* The pending timers of connectWebSocket().
ConnectWebSocketTimers(ts) ==
    {ts[k] : k \in {j \in 1 .. Len(ts) : ts[j].kind = "connectWebSocket"}}

\* C20: a connect() call made less than the minimum spacing after the time
\* connect() last went on to construct a socket (lastConnectionTime)
\* changes nothing in the client; every socket is constructed at least the
\* minimum spacing after the previous one of its client; and in the hook a
\* task run less than its minimum spacing after the last accepted
\* connectWebSocket() records no attempt and schedules no construction.
ConnectSpacedApart ==
    /\ [][(last'.ev = "connect"
             /\ now - cl[last'.c].lastConnectionTime < MinSpacingB)
            => UNCHANGED <<cl, socks, timers>>]_vars
    /\ [][Len(socks') > Len(socks)
            => LET i == socks'[Len(socks')].owner IN
               /\ i \in Clients => now - cl[i].lastConnectionTime >= MinSpacingB
               /\ cl'[i].lastConnectionTime = now]_vars
    /\ [][(cfg.sys = "hook"
             /\ now - orch.lastConnectionAttemptRef < ConnectSpacing)
            => /\ orch'.lastConnectionAttemptRef = orch.lastConnectionAttemptRef
               /\ orch'.isConnectingRef => orch.isConnectingRef
               /\ ConnectWebSocketTimers(timers')
                     \subseteq ConnectWebSocketTimers(timers)]_vars

\* C20: connect() was called less than the minimum spacing after a socket
\* was constructed, when nothing else would have stopped it.
ConnectInsideSpacing ==
    /\ last.ev = "connect"
    /\ now - cl[last.c].lastConnectionTime < MinSpacingB
    /\ ~cl[last.c].isConnecting
    /\ ~cl[last.c].isCircuitBreakerActive

\* C22: the cooldown lasts as long as the delay computed when the breaker
\* was entered, min(circuitBreakerDelay * errorCount, 120 s): a connect()
\* call that finds the breaker active passes the breaker guard only when
\* that long has passed since the last error.
CooldownGrowsWithErrors ==
    [][(last'.ev = "connect" /\ last'.note = "elapsed")
         => now - cl[last'.c].lastErrorTime
              >= breakerDelay(cl[last'.c].errorCount)]_vars

\* The callbacks of one task that are of the given kinds.
CallbacksOf(cbs, kinds) == {k \in 1 .. Len(cbs) : cbs[k].kind \in kinds}

\* The text a socket of the given stream delivers that JSON.parse rejects.
Unparsable(sym) == [e |-> "garbage", s |-> sym, c |-> 0, p |-> 0, P |-> 0]

\* C21: in every state, a message that does not parse, delivered on any open
\* socket, invokes the error listener and no kline or ticker listener,
\* leaves every socket and every timer as it was and leaves the attempt
\* counter and the error count of the client unchanged; and every message
\* task that reported a parsing error changed nothing but lastDataReceived.
ParseErrorNonFatal ==
    /\ [](\A s \in Sockets :
            socks[s].readyState = "OPEN"
              => LET i == socks[s].owner
                     w2 == onmessage(World(0), i,
                                     Unparsable(toUpperCase(socks[s].symbol)))
                 IN /\ \E k \in CallbacksOf(w2.cbs, {"error"}) :
                          w2.cbs[k].arg = "Message parsing error"
                    /\ CallbacksOf(w2.cbs, {"kline", "ticker"}) = {}
                    /\ w2.socks = socks
                    /\ w2.timers = timers
                    /\ w2.cl[i].reconnectAttempts = cl[i].reconnectAttempts
                    /\ w2.cl[i].errorCount = cl[i].errorCount
                    /\ w2.cl[i].isCircuitBreakerActive
                          = cl[i].isCircuitBreakerActive)
    /\ [][(/\ last'.ev = "message"
            /\ \E k \in CallbacksOf(last'.cbs, {"error"}) :
                  last'.cbs[k].arg = "Message parsing error")
            => /\ socks' = socks
               /\ timers' = timers
               /\ cl' = [cl EXCEPT ![last'.c].lastDataReceived = now]]_vars

\* C21: a message that did not parse was delivered to a client that had
\* already used reconnect attempts, and its socket is still open.
ParseErrorAfterRetries ==
    /\ last.ev = "message"
    /\ \E k \in CallbacksOf(last.cbs, {"error"}) :
          last.cbs[k].arg = "Message parsing error"
    /\ cl[last.c].reconnectAttempts > 0
    /\ cl[last.c].ws # 0
    /\ socks[cl[last.c].ws].readyState = "OPEN"

\* C27: a socket becomes open only in the task of its open event, which
\* ends by notifying the connection listener of true; a kline or ticker
\* listener is invoked only in the task of a message event of a client
\* that has an open socket; and in such a task every kline notification is
\* followed at once by the ticker notification of the same price, no ticker
\* notification comes without it, and a connection notification comes
\* before them and says connected.
ListenersInOrder ==
    /\ [][\A s \in Sockets :
            (socks[s].readyState # "OPEN" /\ socks'[s].readyState = "OPEN")
              => /\ last'.ev = "open"
                 /\ last'.c = socks[s].owner
                 /\ Len(last'.cbs) > 0
                 /\ last'.cbs[Len(last'.cbs)]
                      = [kind |-> "connection", arg |-> TRUE]]_vars
    /\ [][CallbacksOf(last'.cbs, {"kline", "ticker"}) # {}
            => /\ last'.ev = "message"
               /\ \E s \in Sockets : /\ socks[s].owner = last'.c
                                      /\ socks[s].readyState = "OPEN"]_vars
    /\ [](last.ev = "message"
            => /\ \A k \in CallbacksOf(last.cbs, {"kline"}) :
                    /\ k < Len(last.cbs)
                    /\ last.cbs[k + 1].kind = "ticker"
                    /\ last.cbs[k + 1].arg.c = last.cbs[k].arg.c
               /\ \A k \in CallbacksOf(last.cbs, {"ticker"}) :
                    k > 1 /\ last.cbs[k - 1].kind = "kline"
               /\ \A k \in CallbacksOf(last.cbs, {"connection"}) :
                    /\ last.cbs[k].arg = TRUE
                    /\ \A j \in CallbacksOf(last.cbs, {"kline", "ticker"}) :
                          k < j)

\* C27: a kline message was handled by a client that had reconnected: the
\* connection listener, the kline listener and the ticker listener ran.
KlineAfterReconnect ==
    /\ last.ev = "message"
    /\ CallbacksOf(last.cbs, {"connection"}) # {}
    /\ CallbacksOf(last.cbs, {"kline"}) # {}
    /\ CallbacksOf(last.cbs, {"ticker"}) # {}
    /\ Len(socks) > 1

-----------------------------------------------------------------------------
(* Properties of the monitoring interval.                                  *)

\* The last task issued a forced price fetch from the monitoring interval.
MonitoringFetched ==
    /\ last.ev = "monitoring"
    /\ Len(inflight) > 0
    /\ inflight[Len(inflight)].by = "monitoring"
    /\ inflight[Len(inflight)].t0 = now

\* C23: a tick of the monitoring interval issues one forced price fetch
\* exactly when the hook reports the client connected and the last
\* observation is more than the threshold old, and issues none otherwise;
\* a tick never comes less than one period after the last observation and
\* an interval is always pending, due within one period, so the second tick
\* after an observation, with the client still reported connected, finds
\* the threshold exceeded.
SilenceForcesFetch ==
    /\ [][last'.ev = "monitoring"
            => /\ now - orch.lastPriceUpdateTime >= MonitoringPeriod
               /\ IF orch.isConnected
                     /\ now - orch.lastPriceUpdateTime > MonitoringPeriod
                  THEN /\ Len(inflight') = Len(inflight) + 1
                       /\ MonitoringFetched'
                       /\ inflight'[Len(inflight')].kind = "ticker"
                       /\ inflight'[Len(inflight')].sym = orch.currentSymbol
                  ELSE inflight' = inflight]_vars
    /\ [](\E k \in 1 .. Len(timers) :
            /\ timers[k].owner = 0 /\ timers[k].kind = "monitoring"
            /\ timers[k].at <= now + MonitoringPeriod
            /\ timers[k].at >= orch.lastPriceUpdateTime + MonitoringPeriod)

\* C23: observations had arrived; the interval then ticked while the client
\* was reported connected, its socket open, and the last observation was
\* more than the threshold old, and the forced fetch is in flight.
ForcedFetchAfterSilence ==
    /\ MonitoringFetched
    /\ orch.isConnected
    /\ wsRefConnected(World(0))
    /\ orch.lastPriceUpdateTime > StartTime
    /\ now - orch.lastPriceUpdateTime > MonitoringPeriod

\* The limits of handleReconnect in the revision client i runs.
MaxAttemptsOf(i) ==
    IF cl[i].rev = "A" THEN MaxReconnectAttemptsA ELSE MaxReconnectAttemptsB
BackoffOf(i, n) ==
    IF cl[i].rev = "A" THEN MinOf(BackoffBaseA * Pow2(n - 1), BackoffCapA)
    ELSE MinOf(BackoffBaseB * Pow2(n - 1), BackoffCapB)
BackoffCapOf(i) == IF cl[i].rev = "A" THEN BackoffCapA ELSE BackoffCapB
JitterOf(i) == IF cl[i].rev = "A" THEN JitterA ELSE JitterB

CountOf(ts, t) == Cardinality({k \in 1 .. Len(ts) : ts[k] = t})

\* The reconnect timers a step has armed.
ArmedReconnects(before, after) ==
    {k \in 1 .. Len(after) :
        /\ after[k].kind = "reconnect"
        /\ CountOf(after, after[k]) > CountOf(before, after[k])}

\* C29: a reconnect is scheduled only while the attempt counter is below
\* the maximum and the circuit breaker is inactive; the delay of attempt n
\* is min(baseDelay * 2^(n-1), maxDelay) plus a jitter in [0, jitterMax),
\* so it is never below the backoff and never above maxDelay + jitterMax; a
\* reconnect timer connects only while the breaker is inactive; the attempt
\* counter never exceeds the maximum.
ReconnectBackoffBounded ==
    /\ [](\A i \in Clients : cl[i].reconnectAttempts <= MaxAttemptsOf(i))
    /\ [][\A k \in ArmedReconnects(timers, timers') :
             LET i == timers'[k].owner
                 n == cl'[i].reconnectAttempts
                 d == timers'[k].delay
             IN /\ cl[i].reconnectAttempts < MaxAttemptsOf(i)
                /\ ~cl[i].isCircuitBreakerActive
                /\ n = cl[i].reconnectAttempts + 1
                /\ d >= BackoffOf(i, n)
                /\ d < BackoffOf(i, n) + JitterOf(i)
                /\ d <= BackoffCapOf(i) + JitterOf(i)
                /\ timers'[k].at = now + d]_vars
    /\ [][(last'.ev = "reconnect" /\ cl[last'.c].isCircuitBreakerActive)
             => socks' = socks]_vars

\* The last attempt the limit allows is scheduled, with a jitter above
\* zero.
JitteredLastAttempt ==
    \E k \in 1 .. Len(timers) :
        /\ timers[k].kind = "reconnect"
        /\ cl[timers[k].owner].reconnectAttempts
              = MaxAttemptsOf(timers[k].owner)
        /\ timers[k].delay
              > BackoffOf(timers[k].owner, MaxAttemptsOf(timers[k].owner))
        /\ timers[k].at - timers[k].delay = now

\* The sockets whose close or error event the step delivers.
ClosedBy(before, after) ==
    {s \in 1 .. Len(before) :
        before[s].readyState # "CLOSED" /\ after[s].readyState = "CLOSED"}

MonitoringTimers(ts, i) ==
    {k \in 1 .. Len(ts) :
        /\ ts[k].owner = i
        /\ ts[k].kind \in {"connectionTimeout", "pingInterval",
                            "dataTimeoutCheck"}}

\* C31: when the close or error event of a socket arrives while its client
\* holds a newer socket that is connecting or open, isConnecting keeps its
\* value, the handshake timeout and the heartbeat and silence timers of the
\* client stay armed, and the connection listener is not told false while
\* the newer socket is open.
SupersededSocketIgnored ==
    [][\A s \in ClosedBy(socks, socks') :
         LET i == socks[s].owner IN
         (/\ last'.ev \in {"fail", "close", "closeSilence"}
          /\ cl[i].ws # 0 /\ cl[i].ws # s
          /\ socks[cl[i].ws].readyState \in {"CONNECTING", "OPEN"})
           => /\ cl'[i].isConnecting = cl[i].isConnecting
              /\ \A k \in MonitoringTimers(timers, i) :
                    \E k2 \in MonitoringTimers(timers', i) :
                        timers'[k2] = timers[k]
              /\ socks[cl[i].ws].readyState = "OPEN"
                   => \A k \in 1 .. Len(last'.cbs) :
                         ~(last'.cbs[k].kind = "connection"
                             /\ last'.cbs[k].arg = FALSE)]_vars

\* The sockets of client i that are connecting or open.
LiveSockets(i) ==
    {s \in Sockets :
        socks[s].owner = i /\ socks[s].readyState \in {"CONNECTING", "OPEN"}}

\* C32: a client never has more than one socket that is connecting or open:
\* a connect() call is a no-op or replaces a socket that is closed.
OneLiveSocket == \A i \in Clients : Cardinality(LiveSockets(i)) <= 1

\* C33: a failed connection attempt is counted once and arms at most one
\* reconnect timer: the task delivering the error and the close of a socket
\* raises reconnectAttempts by at most one and arms at most one reconnect
\* timer, and the timer the error handler left behind adds nothing to
\* either.
FailureCountedOnce ==
    /\ [][last'.ev = "fail"
            => /\ cl'[last'.c].reconnectAttempts
                    <= cl[last'.c].reconnectAttempts + 1
               /\ Cardinality(ArmedReconnects(timers, timers')) <= 1]_vars
    /\ [][last'.ev = "postError"
            => /\ cl'[last'.c].reconnectAttempts
                    = cl[last'.c].reconnectAttempts
               /\ ArmedReconnects(timers, timers') = {}]_vars

\* The next connect() of client i that passes the rate limit, the
\* in-progress guard and the breaker is deferred by the extended backoff.
Deferring(i) ==
    /\ cl[i].rev = "B"
    /\ extendedBackoff([cl[i] EXCEPT !.connectionAttempts = @ + 1], now)

\* C34: a connect() that passes its guards creates a socket, at once or
\* after finitely many timer firings: no client whose connect() has been
\* deferred by the extended backoff is left without a connecting or open
\* socket in a state where every connect() that passes the guards is
\* deferred again (of the client's own tasks only onopen, which needs a
\* socket, resets connectionAttempts and lastSuccessfulConnection).
ExtendedBackoffEnds ==
    \A i \in Clients :
        ~(/\ Deferring(i)
          /\ LiveSockets(i) = {}
          /\ \E k \in 1 .. Len(timers) :
                timers[k].owner = i /\ timers[k].kind = "extendedBackoff")

\* The timers of client i whose callback calls connect() or
\* handleReconnect().
ConnectTimers(ts, i) ==
    {k \in 1 .. Len(ts) :
        /\ ts[k].owner = i
        /\ ts[k].kind \in {"changeStream", "reconnect", "postError",
                            "extendedBackoff"}}

OnStream(s, c) == s.symbol = c.symbol /\ s.interval = c.interval

\* C35: changeStream(symbol, interval) is followed by a connection attempt
\* to symbol@kline_interval: when the timer changeStream armed has run, the
\* client holds a connecting or open socket on its stream, or a timer that
\* will connect is still pending, or a socket closed during its handshake
\* has yet to deliver the failure that schedules a reconnect; and every
\* socket is created on the stream its client then has.
ChangeStreamConnects ==
    /\ [][\A i \in Clients :
            (/\ last'.ev = "changeStream" /\ last'.c = i
             /\ Cardinality(ConnectTimers(timers', i))
                   < Cardinality(ConnectTimers(timers, i)))
              => \/ /\ cl'[i].ws # 0
                    /\ socks'[cl'[i].ws].readyState \in {"CONNECTING", "OPEN"}
                    /\ OnStream(socks'[cl'[i].ws], cl'[i])
                 \/ ConnectTimers(timers', i) # {}
                 \/ \E s \in 1 .. Len(socks') :
                       /\ socks'[s].owner = i
                       /\ socks'[s].readyState = "CLOSING"
                       /\ socks'[s].closedIn = "CONNECTING"]_vars
    /\ [][\A s \in 1 .. Len(socks') :
            s > Len(socks) => OnStream(socks'[s], cl'[socks'[s].owner])]_vars

\* The client the hook holds has its breaker set with the cooldown over,
\* no socket that is connecting, open or closing, and neither it nor the
\* hook has a timer pending that would connect.
Stranded ==
    /\ cfg.sys = "hook" /\ orch.wsRef # 0
    /\ LET i == orch.wsRef IN
         /\ cl[i].isCircuitBreakerActive
         /\ now - cl[i].lastErrorTime >= CircuitBreakerDelay
         /\ \A s \in Sockets :
               socks[s].owner = i => socks[s].readyState = "CLOSED"
         /\ ConnectTimers(timers, i) = {}
         /\ ConnectWebSocketTimers(timers) = {}

\* C36: with the subscription unchanged, the dashboard is never left with a
\* tripped breaker whose cooldown is over and nothing that will make a new
\* connection attempt.
ReconnectsAfterCooldown == ~Stranded

\* C37: a price fetch that fails while a price from the exchange is held
\* leaves the current price and the 24 h change and change percent as they
\* were.
FailedFetchKeepsPrice ==
    [][(/\ last'.ev = "tickerRejected"
        /\ orch.currentPrice.sym \notin {"null", "fallback"})
          => /\ orch'.currentPrice = orch.currentPrice
             /\ orch'.priceChange = orch.priceChange
             /\ orch'.priceChangePercent = orch.priceChangePercent]_vars

\* C38: at most one search request is in flight; isSearching is true
\* exactly while the request of the most recent searchSymbols call is in
\* flight; and once the debounce timer and every request have settled
\* without an error, the results shown are those of the most recent query
\* (the popular symbols for an empty query or after clearSearch).
SearchShowsLatest ==
    /\ Len(inflight) <= 1
    /\ orch.isSearching
         <=> \E k \in 1 .. Len(inflight) : inflight[k].id = orch.lastId
    /\ (/\ ~orch.pending.armed /\ inflight = <<>>
        /\ ~orch.popularLoading /\ orch.searchError = "null")
         => orch.searchResults
              = IF orch.lastKey = "" THEN orch.popularSymbols
                ELSE orch.lastKey

\* An entry older than twice its ttl.
OverAge(e, t) == e.present /\ t - e.timestamp > 2 * e.ttl

\* C30: when a call has run the sweep, no entry of the cache is older than
\* twice its ttl and every entry that was fresh is still there, unchanged;
\* with requests that keep coming and a sweep that keeps being drawn, an
\* entry older than twice its ttl is eventually gone.
SweepBoundsCache ==
    /\ [][last'.swept
            => \A k \in CacheKeys :
                  /\ ~OverAge(cache'[k], now)
                  /\ isFresh(cache[k], now) => cache'[k] = cache[k]]_vars
    /\ \A k \in CacheKeys :
          OverAge(cache[k], now) ~> ~OverAge(cache[k], now)

\* A sweep has left a fresh entry of one key in place while the entry
\* stored under the other key is gone.
SweepKeptFreshEntry ==
    /\ last.swept
    /\ \E k1, k2 \in CacheKeys :
          /\ hist[k1].present /\ ~cache[k1].present
          /\ isFresh(cache[k2], now) /\ cache[k2].timestamp < now

\* C28: when getCachedData has returned to GET for the indicators or the
\* sentiment endpoint, the cached field of the response is true exactly
\* when the data came from a cache entry (fresh or stale) and false when it
\* was fetched during the request.
CachedFieldTellsSource ==
    last.ev = "return"
      => (responseCached(cache, EndpointOf(last.key))
            <=> last.outcome \in {"hit", "stale"})

-----------------------------------------------------------------------------
(* Properties of the exposed candles.                                      *)

\* C26: the exposed candles are strictly increasing in time, and after a
\* kline arrived from the push channel the exposed candle of the same time,
\* if there is one, has the values of that kline.
CandlesOrderedLastWins ==
    /\ Ascending(orch.candleData)
    /\ last.ev = "kline"
         => \A k \in 1 .. Len(orch.candleData) :
               orch.candleData[k].time = last.obs[1].time
                 => orch.candleData[k].close = last.obs[1].close

-----------------------------------------------------------------------------
(* Properties of the provider factory.                                     *)

\* The order the README documents: Groq, Hugging Face, Ollama, Claude,
\* OpenAI.
DocumentedOrder == <<"groq", "huggingface", "ollama", "claude", "openai">>

\* C25: the provider selected is AI_PROVIDER when that names a provider
\* type that is available, and otherwise the first available provider in
\* the documented order.
SelectsInDocumentedOrder ==
    orch.selected # "none"
      => orch.selected =
            IF orch.preferred \in ProviderTypes
               /\ isAvailable(orch.preferred, orch.keys)
            THEN orch.preferred
            ELSE FirstAvailable(DocumentedOrder, orch.keys)

-----------------------------------------------------------------------------
(* Properties of the analysis panel.                                       *)

\* C24: when an invocation of handleAnalyzeClick ends because the AI
\* dependency failed, a fallback result is shown (the mock analysis or the
\* parse-error analysis) and no error is.
FailureShowsFallback ==
    (last.ev = "settled" /\ last.done /\ last.outcome \in Failures
       /\ last.at \in {"isAvailable", "analyze"})
      => /\ orch.aiResult.content \in {"mock", "fallback"}
         /\ orch.aiError = "null"

-----------------------------------------------------------------------------
(* Properties of the freshness cache.                                     *)

\* C4: when fetchFn fails for a key that had an entry stored earlier (and no
\* fresh one at the call), the call returns the value stored last for the key
\* before the call, and does not throw.
StaleReturnedOnFailure ==
    (last.ev \in {"return", "throw"} /\ last.outcome \in {"stale", "error"}
       /\ last.req.stored.present)
        => (last.outcome = "stale" /\ last.value = last.req.stored.data)

\* C15: when fetchFn fails for a key that never had an entry, the call
\* throws and the key still has no entry.
FailurePropagatesWithoutEntry ==
    (last.outcome \in {"stale", "error"} /\ ~hist[last.key].present)
        => /\ last.ev = "throw" /\ last.outcome = "error"
           /\ ~cache[last.key].present

\* C15: fetchFn just failed for a key that never had an entry.
FailedWithoutEntry ==
    /\ last.ev = "throw"
    /\ ~hist[last.key].present
    /\ ~cache[last.key].present

\* C16: a call returns the stored value, without calling fetchFn, exactly
\* when the key has an entry with now - timestamp < ttl (the entry's ttl);
\* otherwise it calls fetchFn once, and when that resolves it stores the
\* value with the time of storing and the ttl of the call, and returns it.
FreshHitElseFetch ==
    [][/\ (calls' = calls + 1)
           => LET k == last'.key
                  e == cache[k]
              IN IF e.present /\ now - e.timestamp < e.ttl
                 THEN /\ last'.ev = "return" /\ last'.outcome = "hit"
                      /\ last'.value = e.data
                      /\ inflight' = inflight
                 ELSE /\ last'.ev = "await"
                      /\ Len(inflight') = Len(inflight) + 1
                      /\ inflight'[Len(inflight')].key = k
                      /\ inflight'[Len(inflight')].ttl = TtlOf(k)
       /\ (last'.outcome = "fetched")
           => /\ Len(inflight') = Len(inflight) - 1
              /\ cache'[last'.key] =
                    [present |-> TRUE, data |-> last'.value,
                     timestamp |-> now, ttl |-> TtlOf(last'.key)]]_vars

\* C16: a call on a key whose entry is exactly ttl old was just made: the
\* entry is not fresh and fetchFn was called.
FetchAtTtl ==
    /\ last.ev = "await"
    /\ last.req.cached.present
    /\ now - last.req.cached.timestamp = last.req.cached.ttl

\* C17: a call on a key leaves the entries of the other keys as they were.
OtherKeysUntouched ==
    [][\A k \in CacheKeys :
          (last'.ev \in {"return", "await", "throw"} /\ k # last'.key)
              => cache'[k] = cache[k]]_vars

-----------------------------------------------------------------------------
(* Properties of the hook.                                                *)

\* The 'unknown' placeholder of the state that depends on the symbol.
DependentStateReset ==
    /\ orch.currentPrice = NullPrice
    /\ orch.priceChange = 0 /\ orch.priceChangePercent = 0
    /\ orch.tickerData = "null"
    /\ orch.candleData = NoCandles
    /\ orch.analysis = NoCandles /\ orch.indicatorArrays = NoCandles

\* C8: changeSymbol(newSymbol) with a different symbol leaves the dependent
\* state reset to the placeholder, and every ticker or candle value that the
\* re-fetch of a symbol change stores was requested for newSymbol.
SymbolChangeFetchesNewSymbol ==
    /\ (last.ev = "changeSymbol" /\ last.note = "changed")
          => DependentStateReset
    /\ \A k \in 1 .. Len(last.log) :
          (last.log[k].by = "changeSymbol"
             /\ last.log[k].what \in {"ticker", "klines"})
              => last.log[k].sym = last.log[k].target

\* The timers whose callback can construct a socket.
ConnectingTimers ==
    {"connectWebSocket", "reconnect", "changeStream", "postError",
     "extendedBackoff"}

\* C9: when the subscription has been changed and no timer that can connect
\* is pending, the hook holds a client for the current (symbol, interval)
\* that has constructed a socket, and no connecting or open socket belongs
\* to another subscription.
SubscriptionChangeReconnects ==
    LET changed == orch.currentSymbol # "BTCUSDT" \/ orch.currentTimeframe # "1d"
        settled == \A k \in 1 .. Len(timers) : timers[k].kind \notin ConnectingTimers
    IN (changed /\ settled) =>
          /\ orch.wsRef # 0
          /\ cl[orch.wsRef].symbol = toLowerCase(orch.currentSymbol)
          /\ cl[orch.wsRef].interval = orch.currentTimeframe
          /\ \E s \in Sockets : socks[s].owner = orch.wsRef
          /\ \A s \in Sockets :
                socks[s].readyState \in {"CONNECTING", "OPEN"}
                    => /\ socks[s].symbol = toLowerCase(orch.currentSymbol)
                       /\ socks[s].interval = orch.currentTimeframe

\* Client i has a connecting or open socket, or a pending timer that can
\* open one.
CanOpenSocket(i) ==
    \/ \E s \in Sockets : /\ socks[s].owner = i
                          /\ socks[s].readyState \in {"CONNECTING", "OPEN"}
    \/ \E k \in 1 .. Len(timers) : /\ timers[k].owner = i
                                   /\ timers[k].kind \in ConnectingTimers

\* C10: at most one of the clients the hook constructed has a connecting or
\* open socket or a pending timer that can open one.
AtMostOneLiveClient ==
    Cardinality({i \in Clients : CanOpenSocket(i)}) <= 1

\* C11: at most one ticker or klines request of the hook is in flight, and at
\* most one of the symbol change and the timeframe change is in progress.
AtMostOneFetchAndChange ==
    /\ Len(inflight) <= 1
    /\ ~(orch.isChangingSymbolRef /\ orch.isChangingTimeframeRef)

\* The requests refreshData() has in flight.
RefreshFetches == {k \in 1 .. Len(inflight) : inflight[k].by = "refresh"}

\* C12: a refresh has at most one request in flight; isRefreshingRef is set
\* exactly while a refresh has a request in flight (it is cleared when the
\* refresh ends, by success or by failure, so the next call is accepted); a
\* refreshData() call made while the flag is set issues no request and
\* changes no state of the hook.
RefreshNotReentrant ==
    /\ [](/\ Cardinality(RefreshFetches) <= 1
          /\ orch.isRefreshingRef <=> RefreshFetches # {}
          /\ (last.ev = "refresh" /\ last.note = "started")
                => orch.isRefreshingRef)
    /\ [][(last'.ev = "refresh" /\ orch.isRefreshingRef)
            => /\ last'.note = "busy"
               /\ UNCHANGED <<orch, inflight, timers, cl, socks>>]_vars

\* C12: refreshData() was called while an earlier refresh still had its
\* request in flight, and returned at the guard.
RefreshDroppedWhileBusy ==
    /\ last.ev = "refresh" /\ last.note = "busy"
    /\ orch.isRefreshingRef /\ Cardinality(RefreshFetches) = 1
    /\ calls >= 2

\* C13: changeSymbol(currentSymbol) and changeTimeframe(currentTimeframe)
\* leave the hook, its clients, its timers and its requests as they were.
SameSubscriptionIsNoOp ==
    [][(last'.ev \in {"changeSymbol", "changeTimeframe"} /\ last'.note = "same")
         => UNCHANGED <<orch, inflight, timers, cl, socks>>]_vars

\* C13: changeTimeframe was called with the current timeframe while the
\* hook had a client and a request in flight.
SameTimeframeRequested ==
    /\ last.ev = "changeTimeframe" /\ last.note = "same"
    /\ ~orch.isChangingTimeframeRef
    /\ Len(inflight) > 0

\* The synthesized tickers (p = P = 0) the listeners were called with in the
\* last task.
ZeroTickers ==
    {k \in 1 .. Len(last.cbs) :
        /\ last.cbs[k].kind = "ticker"
        /\ last.cbs[k].arg.p = 0 /\ last.cbs[k].arg.P = 0}

\* C14: a message whose ticker carries p = P = 0 leaves priceChange and
\* priceChangePercent as they were and sets the current price.
ZeroTickerKeepsChange ==
    [][(last'.ev = "message" /\ ZeroTickers' # {})
         => /\ orch'.priceChange = orch.priceChange
            /\ orch'.priceChangePercent = orch.priceChangePercent
            /\ \E k \in ZeroTickers' :
                  orch'.currentPrice.v = last'.cbs[k].arg.c]_vars

\* C14: a kline message arrived while a nonzero 24 h change was held, and
\* the change is still held.
ZeroTickerAfterChange ==
    /\ last.ev = "message" /\ ZeroTickers # {}
    /\ orch.priceChange = TickerChange
    /\ orch.priceChangePercent = TickerChange

====
